---- MODULE Spec2Model ----
(***************************************************************************)
(* Model of the Storacha MCP storage server: the base64 codec, the IPFS    *)
(* path resolver, the StorachaClient (initialize, uploadFiles, retrieve),  *)
(* the tool handlers and the SSE transport.                                *)
(*                                                                         *)
(* Strings are sequences of one-character strings, so that prefix tests,   *)
(* splitting and transcoding are computed the way the code computes them.  *)
(* A multi-character word that the code only ever compares or copies as a  *)
(* whole ("ipfs", "data:", ";base64,", a content id) is one element.       *)
(***************************************************************************)
EXTENDS Integers, Sequences, FiniteSets, TLC

VARIABLES
  \* ---- codec specification (SpecCodec) ----
  cKind,      \* "rt": a byte stream to encode and decode; "dec": a string to decode
  cChunks,    \* the chunks the Readable stream yields
  cMode,      \* useMultiformatBase64
  cStr,       \* the string handed to base64ToBytes
  cText,      \* result of streamToBase64
  cOut,       \* result of base64ToBytes
  cpc,        \* position of the codec run
  \* ---- one StorachaClient ----
  config,         \* this.config
  initialized,    \* this.initialized: "null", or the state of the promise
  storage,        \* this.storage: "null" or "client"
  initError,      \* the reason the initialization promise rejected with
  lastInit,       \* outcome of the latest initialize() call
  storageCalls,   \* the calls the client made to the storage library, in order
  \* ---- the uploadFiles call in flight on that client ----
  up,             \* arguments, position and outcome of the call
  signalAborted,  \* options.signal.aborted, as it is now
  udCalls,        \* uploadDirectory invocations made by the call, with arguments
  uploadedFiles,  \* the Map the call fills: a sequence of <<key, value>> entries
  linked,         \* per entry name, the content id last reported by the transport
  \* ---- the retrieve call in flight on that client ----
  rt,             \* arguments, position and outcome of the call
  fetchLog,       \* the URLs the call has asked fetch for
  rSteps,         \* the steps the call has started, in order
  \* ---- the upload tool ----
  storageConfig,  \* the configuration the tool was built over
  tool,           \* request, position and returned content of the handler
  proofParses,    \* the texts the handler has handed to Proof.parse
  clients,        \* the configurations of the clients the handler constructed
  \* ---- path specification (SpecPath) ----
  pIn,            \* the path handed to parseIpfsPath or normalizeIpfsPath
  pOut,           \* what parseIpfsPath returned or threw
  pNorm1,         \* normalizeIpfsPath(pIn)
  pNorm2,         \* normalizeIpfsPath(pNorm1)
  ppc,            \* position of the path run
  \* ---- handler invocations in flight together (SpecConcurrent) ----
  calls,          \* per invocation: request, client, Map, fetches, outcome
  reports,        \* per invocation: the links the transport reported for its directory
  roots,          \* per invocation: the root the transport resolved with
  \* ---- the SSE transport (SpecSse) ----
  mcpServer,      \* the server instance startSSETransport was given
  connections,    \* the keys of the connections Map; each maps to its transport
  sse,            \* per GET /sse request: position, session, closed, answer
  post,           \* the POST /messages request in flight
  health          \* the latest answer of GET /health

codecVars == <<cKind, cChunks, cMode, cStr, cText, cOut, cpc>>
clientVars == <<config, initialized, storage, initError, lastInit, storageCalls>>
uploadVars == <<up, signalAborted, udCalls, uploadedFiles, linked>>
retrieveVars == <<rt, fetchLog, rSteps>>
toolVars == <<storageConfig, tool, proofParses, clients>>
pathVars == <<pIn, pOut, pNorm1, pNorm2, ppc>>
concVars == <<calls, reports, roots>>
sseVars == <<mcpServer, connections, sse, post, health>>
vars == <<codecVars, clientVars, uploadVars, retrieveVars, toolVars, pathVars, concVars, sseVars>>

\* what an action on one group of variables leaves alone
exceptCodec == <<clientVars, uploadVars, retrieveVars, toolVars, pathVars, concVars, sseVars>>
exceptClient == <<codecVars, uploadVars, retrieveVars, toolVars, pathVars, concVars, sseVars>>
exceptUpload == <<codecVars, retrieveVars, toolVars, pathVars, concVars, sseVars>>
exceptRetrieve == <<codecVars, clientVars, uploadVars, toolVars, pathVars, concVars, sseVars>>
exceptTool == <<codecVars, clientVars, uploadVars, retrieveVars, pathVars, concVars, sseVars>>
exceptPath == <<codecVars, clientVars, uploadVars, retrieveVars, toolVars, concVars, sseVars>>
exceptConc == <<codecVars, clientVars, uploadVars, retrieveVars, toolVars, pathVars, sseVars>>
exceptSse == <<codecVars, clientVars, uploadVars, retrieveVars, toolVars, pathVars, concVars>>

(***************************************************************************)
(* Bounds                                                                  *)
(***************************************************************************)
MaxChunks == 2      \* chunks in a stream
MaxChunkLen == 2    \* bytes in a chunk
MaxStrLen == 4      \* characters of a string handed to base64ToBytes
MaxFiles == 2       \* files of one uploadFiles call
MaxPathLen == 7     \* pieces of a path handed to the path functions
MaxCalls == 2       \* handler invocations in flight together
MaxReports == 2     \* links the transport reports for one directory
MaxSessions == 2    \* GET /sse requests the server receives

(***************************************************************************)
(* Small sequence helpers                                                  *)
(***************************************************************************)
SeqsUpTo(S, n) == UNION {[1..k -> S] : k \in 0..n}

Pow2(n) == 2 ^ n

RECURSIVE IndexFrom(_, _, _)
\* String.prototype.indexOf from position i (1-based); 0 when absent
IndexFrom(s, x, i) ==
  IF i > Len(s) THEN 0
  ELSE IF s[i] = x THEN i
  ELSE IndexFrom(s, x, i + 1)

IndexOf(s, x) == IndexFrom(s, x, 1)

StartsWith(s, p) == Len(s) >= Len(p) /\ SubSeq(s, 1, Len(p)) = p

Drop(s, n) == SubSeq(s, n + 1, Len(s))

(***************************************************************************)
(* Base64 codec                                                            *)
(***************************************************************************)
\* the base64 alphabet of RFC 4648 (value v is Alphabet[v + 1])
Alphabet ==
  << "A","B","C","D","E","F","G","H","I","J","K","L","M","N","O","P",
     "Q","R","S","T","U","V","W","X","Y","Z","a","b","c","d","e","f",
     "g","h","i","j","k","l","m","n","o","p","q","r","s","t","u","v",
     "w","x","y","z","0","1","2","3","4","5","6","7","8","9","+","/" >>

AlphabetChars == {Alphabet[i] : i \in 1..64}

\* codes[ch] of multiformats' rfc4648 decode: the value of ch, or -1 (undefined)
Codes(ch) ==
  IF ch \in AlphabetChars THEN (CHOOSE i \in 1..64 : Alphabet[i] = ch) - 1 ELSE -1

\* unbase64 of Node's decoder: the URL-safe characters are legal too
Unbase64(ch) ==
  IF ch = "-" THEN 62 ELSE IF ch = "_" THEN 63 ELSE Codes(ch)

Ok(bytes) == [ok |-> TRUE, bytes |-> bytes, error |-> ""]
Err(msg) == [ok |-> FALSE, bytes |-> <<>>, error |-> msg]

\* The code keeps the bit buffer in a 32-bit integer and lets the high bits
\* fall off; it only ever reads the low 14 bits (at most 6 + 8 pending bits),
\* so the buffer is kept modulo 2^16 here.
BufferWidth == Pow2(16)

RECURSIVE Rfc4648EncodeDrain(_, _, _)
\* while (bits > bitsPerChar) { bits -= bitsPerChar; out += alphabet[mask & (buffer >> bits)] }
Rfc4648EncodeDrain(bits, buffer, out) ==
  IF bits > 6
    THEN Rfc4648EncodeDrain(bits - 6, buffer,
                            Append(out, Alphabet[((buffer \div Pow2(bits - 6)) % 64) + 1]))
    ELSE [bits |-> bits, out |-> out]

RECURSIVE Rfc4648EncodeLoop(_, _, _, _, _)
Rfc4648EncodeLoop(data, i, bits, buffer, out) ==
  IF i > Len(data)
    THEN IF bits > 0
           THEN Append(out, Alphabet[((buffer * Pow2(6 - bits)) % 64) + 1])
           ELSE out
    ELSE LET buffer1 == (buffer * 256 + data[i]) % BufferWidth
             d == Rfc4648EncodeDrain(bits + 8, buffer1, out)
         IN Rfc4648EncodeLoop(data, i + 1, d.bits, buffer1, d.out)

\* multiformats base64.encode: the prefix 'm' and the unpadded base64 text
MultibaseEncode(bytes) == <<"m">> \o Rfc4648EncodeLoop(bytes, 1, 0, 0, <<>>)

RECURSIVE StripPadEnd(_, _)
\* let end = string.length; while (string[end - 1] === '=') --end
StripPadEnd(s, end) ==
  IF end >= 1 /\ s[end] = "=" THEN StripPadEnd(s, end - 1) ELSE end

RECURSIVE Rfc4648DecodeLoop(_, _, _, _, _, _)
Rfc4648DecodeLoop(s, end, i, bits, buffer, out) ==
  IF i > end
    THEN IF bits >= 6 \/ ((buffer * Pow2(8 - bits)) % 256) # 0
           THEN Err("Unexpected end of data")
           ELSE Ok(out)
    ELSE LET value == Codes(s[i]) IN
         IF value = -1 THEN Err("Non-base64 character")
         ELSE LET buffer1 == (buffer * 64 + value) % BufferWidth
                  bits1 == bits + 6
              IN IF bits1 >= 8
                   THEN Rfc4648DecodeLoop(s, end, i + 1, bits1 - 8, buffer1,
                          Append(out, (buffer1 \div Pow2(bits1 - 8)) % 256))
                   ELSE Rfc4648DecodeLoop(s, end, i + 1, bits1, buffer1, out)

\* multiformats base64.decode: the text must carry the prefix 'm'
MultibaseDecode(text) ==
  IF Len(text) = 0 \/ text[1] # "m"
    THEN Err("Unable to decode multibase string")
    ELSE LET body == Drop(text, 1)
         IN Rfc4648DecodeLoop(body, StripPadEnd(body, Len(body)), 1, 0, 0, <<>>)

RECURSIVE BufferToBase64(_)
\* Buffer.prototype.toString('base64'): padded standard base64
BufferToBase64(b) ==
  IF Len(b) = 0 THEN <<>>
  ELSE IF Len(b) = 1 THEN
    << Alphabet[(b[1] \div 4) + 1], Alphabet[((b[1] % 4) * 16) + 1], "=", "=" >>
  ELSE IF Len(b) = 2 THEN
    << Alphabet[(b[1] \div 4) + 1],
       Alphabet[((b[1] % 4) * 16 + (b[2] \div 16)) + 1],
       Alphabet[((b[2] % 16) * 4) + 1], "=" >>
  ELSE
    << Alphabet[(b[1] \div 4) + 1],
       Alphabet[((b[1] % 4) * 16 + (b[2] \div 16)) + 1],
       Alphabet[((b[2] % 16) * 4 + (b[3] \div 64)) + 1],
       Alphabet[(b[3] % 64) + 1] >> \o BufferToBase64(Drop(b, 3))

RECURSIVE LegalValues(_, _)
\* Node's decoder skips every illegal character and stops at the first '='
LegalValues(s, i) ==
  IF i > Len(s) \/ s[i] = "=" THEN <<>>
  ELSE IF Unbase64(s[i]) = -1 THEN LegalValues(s, i + 1)
  ELSE <<Unbase64(s[i])>> \o LegalValues(s, i + 1)

RECURSIVE DecodeGroups(_)
DecodeGroups(v) ==
  IF Len(v) <= 1 THEN <<>>
  ELSE IF Len(v) = 2 THEN << v[1] * 4 + (v[2] \div 16) >>
  ELSE IF Len(v) = 3 THEN << v[1] * 4 + (v[2] \div 16), (v[2] % 16) * 16 + (v[3] \div 4) >>
  ELSE << v[1] * 4 + (v[2] \div 16), (v[2] % 16) * 16 + (v[3] \div 4), (v[3] % 4) * 64 + v[4] >>
       \o DecodeGroups(Drop(v, 4))

\* Buffer.from(str, 'base64'): permissive, never throws
BufferFromBase64(s) == DecodeGroups(LegalValues(s, 1))

RECURSIVE DataUrlEnd(_, _)
\* the lazy .*? of /^data:.*?;base64,/ : the first ";base64," reached without
\* crossing a line terminator; 0 when the pattern does not match
DataUrlEnd(s, i) ==
  IF i > Len(s) THEN 0
  ELSE IF s[i] = ";base64," THEN i
  ELSE IF s[i] = "\n" THEN 0
  ELSE DataUrlEnd(s, i + 1)

\* base64Str.replace(/^data:.*?;base64,/, '')
StripDataUrlPrefix(s) ==
  IF Len(s) >= 1 /\ s[1] = "data:" /\ DataUrlEnd(s, 2) > 0
    THEN Drop(s, DataUrlEnd(s, 2))
    ELSE s

\* mutant of StandardFallback: the decoded buffer is returned without the
\* re-encoding comparison
StandardFallbackUnverified(cleanStr) == Ok(BufferFromBase64(cleanStr))

\* the catch branch of base64ToBytes: standard decoding, accepted only when
\* re-encoding the decoded bytes reproduces the cleaned input
StandardFallback(cleanStr) ==
  LET buffer == BufferFromBase64(cleanStr)
  IN IF BufferToBase64(buffer) = cleanStr
       THEN Ok(buffer)
       ELSE Err("Invalid base64 format")

base64ToBytes(base64Str) ==
  LET cleanStr == StripDataUrlPrefix(base64Str)
      prefixedStr == IF StartsWith(cleanStr, <<"m">>) THEN cleanStr ELSE <<"m">> \o cleanStr
      first == MultibaseDecode(prefixedStr)
  IN IF first.ok THEN first ELSE StandardFallback(cleanStr)

RECURSIVE ConcatChunks(_)
ConcatChunks(chunks) ==
  IF Len(chunks) = 0 THEN <<>> ELSE Head(chunks) \o ConcatChunks(Tail(chunks))

\* streamToBase64: drain the stream into one buffer, then encode it
streamToBase64(chunks, useMultiformatBase64) ==
  LET bytes == ConcatChunks(chunks)
  IN IF useMultiformatBase64 THEN MultibaseEncode(bytes) ELSE BufferToBase64(bytes)

(***************************************************************************)
(* Thrown values                                                           *)
(***************************************************************************)
\* an Error object: its name, its message (a sequence of parts) and, for an
\* IpfsPathError, the path it carries
ErrorOf(name, message, path) ==
  [thrown |-> TRUE, isError |-> TRUE, name |-> name, message |-> message, path |-> path]

NewError(message) == ErrorOf("Error", message, <<>>)

\* a thrown value that is not an Error (a rejected plain string)
NonError(value) ==
  [thrown |-> TRUE, isError |-> FALSE, name |-> "", message |-> <<value>>, path |-> <<>>]

Nothing ==
  [thrown |-> FALSE, isError |-> FALSE, name |-> "", message |-> <<>>, path |-> <<>>]

(***************************************************************************)
(* URLs                                                                    *)
(***************************************************************************)
\* new URL(relative, base) for a relative reference that begins with "/":
\* the origin comes from the base; the reference is cut at the first '#'
\* (fragment) and what precedes it at the first '?' (query)
NewUrl(relative, base) ==
  LET h == IndexOf(relative, "#")
      beforeHash == IF h = 0 THEN relative ELSE SubSeq(relative, 1, h - 1)
      q == IndexOf(beforeHash, "?")
  IN [origin |-> base,
      pathname |-> IF q = 0 THEN beforeHash ELSE SubSeq(beforeHash, 1, q - 1),
      search |-> IF q = 0 THEN <<>> ELSE Drop(beforeHash, q),
      hash |-> IF h = 0 THEN <<>> ELSE Drop(relative, h)]

(***************************************************************************)
(* StorachaClient                                                          *)
(***************************************************************************)
DEFAULT_GATEWAY_URL == "https://storacha.link"

\* constructor: the gateway defaults to DEFAULT_GATEWAY_URL
StorachaClient(cfg) ==
  [cfg EXCEPT !.gatewayUrl = IF @ = "undefined" THEN DEFAULT_GATEWAY_URL ELSE @]

\* configurations a caller may construct a client with
ClientConfigs ==
  [signer : BOOLEAN,
   delegation : {"undefined", "proofDefault"},
   gatewayUrl : {"undefined", "https://gw.test"}]

isConnected(initializedV) == initializedV # "null"

getGatewayUrl(cfg) == cfg.gatewayUrl

\* mutant of initializeEntry: the existing promise is not looked at
initializeEntryNoMemo(initializedV, cfg) ==
  IF ~cfg.signer THEN "Private key is required"
  ELSE IF cfg.delegation = "undefined" THEN "Delegation is required"
  ELSE "started"

\* mutant of initializeEntry: the delegation is checked before the signer
initializeEntryDelegationFirst(initializedV, cfg) ==
  IF initializedV # "null" THEN "existing"
  ELSE IF cfg.delegation = "undefined" THEN "Delegation is required"
  ELSE IF ~cfg.signer THEN "Private key is required"
  ELSE "started"

\* the synchronous part of initialize(): which way the call goes
initializeEntry(initializedV, cfg) ==
  IF initializedV # "null" THEN "existing"
  ELSE IF ~cfg.signer THEN "Private key is required"
  ELSE IF cfg.delegation = "undefined" THEN "Delegation is required"
  ELSE "started"

\* the catch block of the initialization closure
initializeFailure(thrown) ==
  [NewError(<<"Failed to initialize storage client: ">> \o
            (IF thrown.isError THEN thrown.message ELSE <<"Unknown error">>))
     EXCEPT !.name = "Error"]

\* values uploadDirectory may reject with
TransportThrows ==
  { NewError(<<"Upload failed">>),
    ErrorOf("AbortError", <<"Upload aborted">>, <<>>),
    NonError("boom") }

\* values Storage.create or addSpace may reject with
InitThrows == { NewError(<<"connect failed">>), NonError("boom") }

\* initialize(): returns the existing promise, throws on a missing signer or
\* delegation, or starts the closure, which runs up to Storage.create
Initialize ==
  /\ lastInit' = initializeEntry(initialized, config)
  /\ initialized' = IF initializeEntry(initialized, config) = "started"
                      THEN "creating" ELSE initialized
  /\ storageCalls' = IF initializeEntry(initialized, config) = "started"
                       THEN Append(storageCalls, "create") ELSE storageCalls
  /\ UNCHANGED <<config, storage, initError>>
  /\ UNCHANGED exceptClient

\* Storage.create resolved: this.storage is set and addSpace is called
CreateResolve ==
  /\ initialized = "creating"
  /\ storage' = "client"
  /\ initialized' = "addingSpace"
  /\ storageCalls' = Append(storageCalls, "addSpace")
  /\ UNCHANGED <<config, initError, lastInit>>
  /\ UNCHANGED exceptClient

CreateReject ==
  /\ initialized = "creating"
  /\ \E t \in InitThrows :
       initError' = initializeFailure(t)
  /\ initialized' = "rejected"
  /\ UNCHANGED <<config, storage, lastInit, storageCalls>>
  /\ UNCHANGED exceptClient

AddSpaceResolve ==
  /\ initialized = "addingSpace"
  /\ initialized' = "fulfilled"
  /\ UNCHANGED <<config, storage, initError, lastInit, storageCalls>>
  /\ UNCHANGED exceptClient

AddSpaceReject ==
  /\ initialized = "addingSpace"
  /\ \E t \in InitThrows :
       initError' = initializeFailure(t)
  /\ initialized' = "rejected"
  /\ UNCHANGED <<config, storage, lastInit, storageCalls>>
  /\ UNCHANGED exceptClient

(***************************************************************************)
(* uploadFiles                                                             *)
(***************************************************************************)
Names == {"a.txt", "b.txt", ""}
ContentIds == {"cid1", "cid2"}
RootIds == {"root1"}

\* file contents: "QQ==" (the byte 65) and "Q!" (not base64)
Contents == { <<"Q", "Q", "=", "=">>, <<"Q", "!">> }

UploadFiles == [name : Names, content : Contents]
FileLists == SeqsUpTo(UploadFiles, MaxFiles)

UploadOptions ==
  [signal : {"undefined", "signal"},
   retries : {"undefined", "5"},
   publishToFilecoin : {"undefined", "true", "false"}]

\* Map.prototype.set on a Map kept as its sequence of entries
MapSet(m, k, v) ==
  IF \E i \in 1..Len(m) : m[i][1] = k
    THEN [i \in 1..Len(m) |-> IF m[i][1] = k THEN <<k, v>> ELSE m[i]]
    ELSE Append(m, <<k, v>>)

MapKeys(m) == {m[i][1] : i \in 1..Len(m)}

MapGet(m, k) == LET i == CHOOSE j \in 1..Len(m) : m[j][1] = k IN m[i][2]

\* mutant of RetriesOrDefault: the caller's retry count is dropped
RetriesAlwaysDefault(options) == "3"

\* retries: options.retries ?? 3
RetriesOrDefault(options) ==
  IF options.retries = "undefined" THEN "3" ELSE options.retries

\* mutant of PieceHasherOption: the piece hasher is kept unless the flag is
\* false
PieceHasherUnlessFalse(options) ==
  IF options.publishToFilecoin = "false" THEN "undefined" ELSE "default"

\* ...(options.publishToFilecoin === true ? {} : { pieceHasher: undefined })
PieceHasherOption(options) ==
  IF options.publishToFilecoin = "true" THEN "default" ELSE "undefined"

\* the refinement of uploadInputSchema.file: the text, its data-URL prefix
\* removed, is what re-encoding its permissive decoding gives
uploadInputSchemaFile(str) ==
  LET cleanStr == StripDataUrlPrefix(str)
  IN BufferToBase64(BufferFromBase64(cleanStr)) = cleanStr

\* files.map(file => new File([base64ToBytes(file.content)], file.name))
FileObjects(files) ==
  [i \in 1..Len(files) |->
     [name |-> files[i].name, decoded |-> base64ToBytes(files[i].content)]]

\* mutant of uploadFilesEntry: the signal is not inspected
uploadFilesEntryNoAbortCheck(initializedV, storageV, files, options, aborted) ==
  IF initializedV = "null" \/ storageV = "null"
    THEN [throw |-> NewError(<<"Client not initialized">>), passed |-> FALSE, invoke |-> <<>>]
    ELSE [throw |-> Nothing, passed |-> TRUE,
          invoke |-> << [files |-> [i \in 1..Len(files) |->
                                     [name |-> files[i].name,
                                      bytes |-> base64ToBytes(files[i].content).bytes]],
                         pieceHasher |-> PieceHasherOption(options),
                         retries |-> RetriesOrDefault(options),
                         signal |-> options.signal] >>]

\* mutant of uploadFilesEntry: the signal is inspected before the client state
uploadFilesEntryAbortFirst(initializedV, storageV, files, options, aborted) ==
  IF options.signal # "undefined" /\ aborted
    THEN [throw |-> NewError(<<"Upload aborted">>), passed |-> FALSE, invoke |-> <<>>]
    ELSE [throw |-> NewError(<<"Client not initialized">>), passed |-> FALSE, invoke |-> <<>>]

\* the part of uploadFiles that runs before the transport is awaited:
\* either it throws, or it invokes uploadDirectory once with these arguments
uploadFilesEntry(initializedV, storageV, files, options, aborted) ==
  IF initializedV = "null" \/ storageV = "null"
    THEN [throw |-> NewError(<<"Client not initialized">>), passed |-> FALSE, invoke |-> <<>>]
  ELSE IF options.signal # "undefined" /\ aborted
    THEN [throw |-> NewError(<<"Upload aborted">>), passed |-> FALSE, invoke |-> <<>>]
  ELSE LET objs == FileObjects(files)
           bad == {i \in 1..Len(files) : ~objs[i].decoded.ok}
       IN IF bad # {}
            THEN [throw |-> NewError(<<objs[CHOOSE i \in bad : \A j \in bad : i <= j].decoded.error>>),
                  passed |-> TRUE, invoke |-> <<>>]
            ELSE [throw |-> Nothing, passed |-> TRUE,
                  invoke |-> << [files |-> [i \in 1..Len(files) |->
                                             [name |-> objs[i].name, bytes |-> objs[i].decoded.bytes]],
                                 pieceHasher |-> PieceHasherOption(options),
                                 retries |-> RetriesOrDefault(options),
                                 signal |-> options.signal] >>]

\* mutant of onDirectoryEntryLink: a name already in the map keeps its first
\* content id, and empty names are recorded too
onDirectoryEntryLinkKeepFirst(m, name, cid) ==
  IF name \in MapKeys(m) THEN m ELSE Append(m, <<name, cid>>)

\* onDirectoryEntryLink: entries with an empty name are not recorded
onDirectoryEntryLink(m, name, cid) ==
  IF name # "" THEN MapSet(m, name, cid) ELSE m

\* the value uploadFiles resolves with
uploadResult(root, cfg, m) ==
  [root |-> root,
   url |-> NewUrl(<<"/", "ipfs", "/", root>>, getGatewayUrl(cfg)),
   files |-> m]

\* mutant of uploadFilesAfterAwait: the signal is inspected again when the
\* transport has settled
uploadFilesAfterAwaitRecheck(settled, cfg, m, aborted) ==
  IF aborted
    THEN [pc |-> "rejected", error |-> NewError(<<"Upload aborted">>),
          result |-> [root |-> "none", url |-> "none", files |-> <<>>]]
  ELSE IF settled.rejected
    THEN [pc |-> "rejected", error |-> settled.reason,
          result |-> [root |-> "none", url |-> "none", files |-> <<>>]]
    ELSE [pc |-> "resolved", error |-> Nothing,
          result |-> uploadResult(settled.root, cfg, m)]

\* what follows `await this.storage.uploadDirectory(...)`: a rejection leaves
\* uploadFiles as it is, a root is wrapped into the result; the signal is not
\* read again
uploadFilesAfterAwait(settled, cfg, m, aborted) ==
  IF settled.rejected
    THEN [pc |-> "rejected", error |-> settled.reason,
          result |-> [root |-> "none", url |-> "none", files |-> <<>>]]
    ELSE [pc |-> "resolved", error |-> Nothing,
          result |-> uploadResult(settled.root, cfg, m)]

NoLinks == [n \in Names |-> "none"]

NoUpload ==
  [pc |-> "none", files |-> <<>>,
   options |-> [signal |-> "undefined", retries |-> "undefined", publishToFilecoin |-> "undefined"],
   abortedAtEntry |-> FALSE, initializedAtEntry |-> "null", storageAtEntry |-> "null",
   passed |-> FALSE,
   settled |-> [rejected |-> FALSE, reason |-> Nothing, root |-> "none"],
   error |-> Nothing, result |-> [root |-> "none", url |-> "none", files |-> <<>>]]

\* uploadFiles(files, options) is called
UploadFilesCall(files, options, aborted) ==
  LET e == uploadFilesEntry(initialized, storage, files, options, aborted)
  IN /\ up' = [NoUpload EXCEPT
                 !.pc = IF e.throw.thrown THEN "rejected" ELSE "awaiting",
                 !.files = files,
                 !.options = options,
                 !.abortedAtEntry = (options.signal # "undefined" /\ aborted),
                 !.initializedAtEntry = initialized,
                 !.storageAtEntry = storage,
                 !.passed = e.passed,
                 !.error = e.throw]
     /\ signalAborted' = (options.signal # "undefined" /\ aborted)
     /\ udCalls' = e.invoke
     /\ uploadedFiles' = <<>>
     /\ linked' = NoLinks

UploadFilesAction ==
  /\ up.pc = "none"
  /\ \E files \in FileLists, options \in UploadOptions, aborted \in BOOLEAN :
       /\ (options.signal = "undefined" => ~aborted)
       /\ UploadFilesCall(files, options, aborted)
  /\ UNCHANGED <<clientVars, exceptUpload>>

\* names the transport may report: the entries of the directory it was given
\* and the directory itself, whose name is empty
EntryNames(files) == {files[i].name : i \in 1..Len(files)} \cup {""}

\* the transport reports that an entry was linked into the directory
DirectoryEntryLinked ==
  /\ up.pc = "awaiting"
  /\ \E name \in EntryNames(up.files), cid \in ContentIds :
       /\ uploadedFiles' = onDirectoryEntryLink(uploadedFiles, name, cid)
       /\ linked' = [linked EXCEPT ![name] = cid]
  /\ UNCHANGED <<up, signalAborted, udCalls>>
  /\ UNCHANGED <<clientVars, exceptUpload>>

\* uploadDirectory resolves with the root of the directory
UploadDirectoryResolve ==
  /\ up.pc = "awaiting"
  /\ \E root \in RootIds :
       LET settled == [rejected |-> FALSE, reason |-> Nothing, root |-> root]
           after == uploadFilesAfterAwait(settled, config, uploadedFiles, signalAborted)
       IN up' = [up EXCEPT !.pc = after.pc, !.error = after.error,
                           !.result = after.result, !.settled = settled]
  /\ UNCHANGED <<signalAborted, udCalls, uploadedFiles, linked>>
  /\ UNCHANGED <<clientVars, exceptUpload>>

\* uploadDirectory rejects: the value propagates out of uploadFiles, and the
\* map local to the call is gone with it
UploadDirectoryReject ==
  /\ up.pc = "awaiting"
  /\ \E t \in TransportThrows :
       LET settled == [rejected |-> TRUE, reason |-> t, root |-> "none"]
           after == uploadFilesAfterAwait(settled, config, uploadedFiles, signalAborted)
       IN up' = [up EXCEPT !.pc = after.pc, !.error = after.error,
                           !.result = after.result, !.settled = settled]
  /\ uploadedFiles' = <<>>
  /\ linked' = NoLinks
  /\ UNCHANGED <<signalAborted, udCalls>>
  /\ UNCHANGED <<clientVars, exceptUpload>>

\* the caller has taken the outcome of the call; the client is free for the next
UploadSettled ==
  /\ up.pc \in {"resolved", "rejected"}
  /\ up' = NoUpload
  /\ signalAborted' = FALSE
  /\ udCalls' = <<>>
  /\ uploadedFiles' = <<>>
  /\ linked' = NoLinks
  /\ UNCHANGED <<clientVars, exceptUpload>>

\* the caller aborts the signal while the call is in flight
AbortSignal ==
  /\ up.pc = "awaiting"
  /\ up.options.signal # "undefined"
  /\ ~signalAborted
  /\ signalAborted' = TRUE
  /\ UNCHANGED <<up, udCalls, uploadedFiles, linked>>
  /\ UNCHANGED <<clientVars, exceptUpload>>

(***************************************************************************)
(* parseIpfsPath                                                           *)
(***************************************************************************)
\* strings CID.parse accepts, with the content id each denotes; "zA" is the
\* base58btc spelling of the content id whose canonical text is "bafyA"
CidStrings == {"bafyA", "zA", "QmB"}

CidParse(str) == IF str = "QmB" THEN "cidB" ELSE "cidA"

\* cid.toString(): the canonical text of a content id
CidToString(cid) == IF cid = "cidB" THEN "QmB" ELSE "bafyA"

PathError(message, path) ==
  [ok |-> FALSE, protocol |-> "", cid |-> "", pathname |-> <<>>,
   error |-> ErrorOf("IpfsPathError", message, path)]

\* mutant of parseIpfsPath: the bare ipfs/ prefix is not stripped
parseIpfsPathKeepBarePrefix(path) ==
  LET afterScheme == IF StartsWith(path, <<"ipfs", ":", "/", "/">>) THEN Drop(path, 4) ELSE path
      normalized == IF StartsWith(afterScheme, <<"/", "ipfs", "/">>) THEN Drop(afterScheme, 3)
                    ELSE afterScheme
      slashIndex == IndexOf(normalized, "/")
      cidStr == SubSeq(normalized, 1, slashIndex - 1)
      pathname == Drop(normalized, slashIndex - 1)
  IN IF slashIndex = 0
       THEN PathError(<<"Invalid IPFS path: Must contain a slash separator between CID and filename">>, path)
     ELSE IF Len(pathname) <= 1
       THEN PathError(<<"Invalid IPFS path: Filename cannot be empty">>, path)
     ELSE IF Len(cidStr) = 1 /\ cidStr[1] \in CidStrings
       THEN [ok |-> TRUE, protocol |-> "ipfs:", cid |-> CidParse(cidStr[1]),
             pathname |-> pathname, error |-> Nothing]
     ELSE PathError(<<"Invalid IPFS path: Invalid CID \"">> \o cidStr \o <<"\"">>, path)

\* mutant of parseIpfsPath: the error carries the stripped path, and a path
\* that ends at its first slash is accepted
parseIpfsPathStrippedInError(path) ==
  LET afterScheme == IF StartsWith(path, <<"ipfs", ":", "/", "/">>) THEN Drop(path, 4) ELSE path
      normalized == IF StartsWith(afterScheme, <<"/", "ipfs", "/">>) THEN Drop(afterScheme, 3)
                    ELSE IF StartsWith(afterScheme, <<"ipfs", "/">>) THEN Drop(afterScheme, 2)
                    ELSE afterScheme
      slashIndex == IndexOf(normalized, "/")
      cidStr == SubSeq(normalized, 1, slashIndex - 1)
      pathname == Drop(normalized, slashIndex - 1)
  IN IF slashIndex = 0
       THEN PathError(<<"Invalid IPFS path: Must contain a slash separator between CID and filename">>, normalized)
     ELSE IF Len(cidStr) = 1 /\ cidStr[1] \in CidStrings
       THEN [ok |-> TRUE, protocol |-> "ipfs:", cid |-> CidParse(cidStr[1]),
             pathname |-> pathname, error |-> Nothing]
     ELSE PathError(<<"Invalid IPFS path: Invalid CID \"">> \o cidStr \o <<"\"">>, normalized)

parseIpfsPath(path) ==
  LET afterScheme == IF StartsWith(path, <<"ipfs", ":", "/", "/">>) THEN Drop(path, 4) ELSE path
      normalized == IF StartsWith(afterScheme, <<"/", "ipfs", "/">>) THEN Drop(afterScheme, 3)
                    ELSE IF StartsWith(afterScheme, <<"ipfs", "/">>) THEN Drop(afterScheme, 2)
                    ELSE afterScheme
      slashIndex == IndexOf(normalized, "/")
      cidStr == SubSeq(normalized, 1, slashIndex - 1)
      pathname == Drop(normalized, slashIndex - 1)
  IN IF slashIndex = 0
       THEN PathError(<<"Invalid IPFS path: Must contain a slash separator between CID and filename">>, path)
     ELSE IF Len(pathname) <= 1
       THEN PathError(<<"Invalid IPFS path: Filename cannot be empty">>, path)
     ELSE IF Len(cidStr) = 1 /\ cidStr[1] \in CidStrings
       THEN [ok |-> TRUE, protocol |-> "ipfs:", cid |-> CidParse(cidStr[1]),
             pathname |-> pathname, error |-> Nothing]
     ELSE PathError(<<"Invalid IPFS path: Invalid CID \"">> \o cidStr \o <<"\"">>, path)

(***************************************************************************)
(* retrieve                                                                *)
(***************************************************************************)
RECURSIVE SplitOn(_, _)
SplitOn(s, sep) ==
  LET i == IndexOf(s, sep)
  IN IF i = 0 THEN <<s>> ELSE <<SubSeq(s, 1, i - 1)>> \o SplitOn(Drop(s, i), sep)

\* the name/value pairs a server reads from the query of the URL
SearchParams(url) ==
  LET parts == SplitOn(url.search, "&")
  IN { LET p == parts[i]
           e == IndexOf(p, "=")
       IN IF e = 0 THEN <<p, <<>>>> ELSE <<SubSeq(p, 1, e - 1), Drop(p, e)>>
       : i \in {j \in 1..Len(parts) : parts[j] # <<>>} }

\* file paths handed to retrieve: a prefix, a content id text, a pathname
RetrievePaths ==
  LET prefixes == { <<>>, <<"ipfs", ":", "/", "/">>, <<"/", "ipfs", "/">> }
      cids == { <<"bafyA">>, <<"zA">>, <<"bad">> }
      pathnames == { <<>>, <<"/">>, <<"/", "f">>, <<"/", "d", "/", "f">>,
                     <<"/", "f", "?", "x", "=", "1">>, <<"/", "f", "#", "x">> }
  IN {p \o c \o n : p \in prefixes, c \in cids, n \in pathnames}

RetrieveOptions == [useMultiformatBase64 : {"undefined", "true", "false"}]

\* gateway responses: status, status text, content-type header
StatusTexts == (200 :> "OK") @@ (204 :> "No Content") @@ (304 :> "Not Modified")
               @@ (404 :> "Not Found") @@ (500 :> "Internal Server Error")
Responses == [status : DOMAIN StatusTexts, contentType : {"null", "text/plain"}]

\* the decimal text of a status, as the template literal writes it
NumberToString(n) ==
  IF n = 200 THEN "200" ELSE IF n = 204 THEN "204" ELSE IF n = 304 THEN "304"
  ELSE IF n = 404 THEN "404" ELSE "500"

\* Response.ok
ResponseOk(response) == response.status >= 200 /\ response.status <= 299

\* byte streams the DAG walk may yield
FileStreams == { <<>>, << <<65>> >>, << <<152, 0>> >>, << <<65>>, <<0, 255>> >> }

\* values fetch, the CAR reader, the exporter or the stream may reject with
RetrieveThrows == { NewError(<<"Network error">>), NonError("boom") }

\* the URL retrieve requests
retrieveUrl(resource, cfg) ==
  NewUrl(<<"/", "ipfs", "/">> \o <<CidToString(resource.cid)>> \o resource.pathname
           \o <<"?", "format", "=", "car">>,
         getGatewayUrl(cfg))

\* mutant of retrieveEntry: the guard of uploadFiles stands in front of it
retrieveEntryGuarded(filepath, cfg) ==
  IF initialized = "null" \/ storage = "null"
    THEN [throw |-> NewError(<<"Client not initialized">>), fetch |-> <<>>, steps |-> <<>>]
    ELSE LET resource == parseIpfsPath(filepath)
         IN IF ~resource.ok
              THEN [throw |-> resource.error, fetch |-> <<>>, steps |-> <<"resolve">>]
              ELSE [throw |-> Nothing, fetch |-> <<retrieveUrl(resource, cfg)>>,
                    steps |-> <<"resolve", "fetch">>]

\* mutant of retrieveEntry: the gateway is asked before the path is resolved
retrieveEntryFetchFirst(filepath, cfg) ==
  LET resource == parseIpfsPath(filepath)
  IN [throw |-> resource.error,
      fetch |-> << NewUrl(<<"/", "ipfs", "/">> \o filepath \o <<"?", "format", "=", "car">>,
                          getGatewayUrl(cfg)) >>,
      steps |-> <<"fetch", "resolve">>]

\* the part of retrieve that runs before fetch is awaited
retrieveEntry(filepath, cfg) ==
  LET resource == parseIpfsPath(filepath)
  IN IF ~resource.ok
       THEN [throw |-> resource.error, fetch |-> <<>>, steps |-> <<"resolve">>]
       ELSE [throw |-> Nothing, fetch |-> <<retrieveUrl(resource, cfg)>>,
             steps |-> <<"resolve", "fetch">>]

\* mutant of responseFailure: the status text is left out, and any status
\* below 400 counts as success
responseFailureLoose(response) ==
  IF response.status < 400 THEN Nothing
  ELSE NewError(<<"Error fetching file: ", NumberToString(response.status)>>)

\* if (!response.ok) throw new Error(`Error fetching file: ...`)
responseFailure(response) ==
  IF ResponseOk(response) THEN Nothing
  ELSE NewError(<<"Error fetching file: ", NumberToString(response.status), " ",
                  StatusTexts[response.status]>>)

\* mutant of retrieveResult: the option is not read, the data is always
\* standard base64
retrieveResultAlwaysStandard(chunks, options, response) ==
  [data |-> streamToBase64(chunks, FALSE),
   type |-> IF response.contentType = "null" THEN "undefined" ELSE response.contentType]

\* the value retrieve resolves with
retrieveResult(chunks, options, response) ==
  [data |-> streamToBase64(chunks, options.useMultiformatBase64 = "true"),
   type |-> IF response.contentType = "null" THEN "undefined" ELSE response.contentType]

NoResponse == [status |-> 0, contentType |-> "null"]

NoRetrieve ==
  [pc |-> "none", filepath |-> <<>>, options |-> [useMultiformatBase64 |-> "undefined"],
   response |-> NoResponse, content |-> <<>>, error |-> Nothing,
   result |-> [data |-> <<>>, type |-> "undefined"]]

\* retrieve(filepath, options) runs on a client with configuration cfg, up
\* to its first await
RetrieveStart(filepath, options, cfg) ==
  LET e == retrieveEntry(filepath, cfg)
  IN /\ rt' = [NoRetrieve EXCEPT
                 !.pc = IF e.throw.thrown THEN "rejected" ELSE "fetching",
                 !.filepath = filepath,
                 !.options = options,
                 !.error = e.throw]
     /\ fetchLog' = e.fetch
     /\ rSteps' = e.steps

\* retrieve(filepath, options) is called
RetrieveCall ==
  /\ rt.pc = "none"
  /\ \E filepath \in RetrievePaths, options \in RetrieveOptions :
       RetrieveStart(filepath, options, config)
  /\ UNCHANGED exceptRetrieve

\* the gateway answers: a non-2xx status is thrown, otherwise the body is read
FetchResolve ==
  /\ rt.pc = "fetching"
  /\ \E response \in Responses :
       LET f == responseFailure(response)
       IN rt' = [rt EXCEPT !.pc = IF f.thrown THEN "rejected" ELSE "body",
                           !.response = response,
                           !.error = f]
  /\ UNCHANGED <<fetchLog, rSteps>>
  /\ UNCHANGED exceptRetrieve

\* fetch rejects: the value propagates out of retrieve
FetchReject ==
  /\ rt.pc = "fetching"
  /\ \E t \in RetrieveThrows :
       rt' = [rt EXCEPT !.pc = "rejected", !.error = t]
  /\ UNCHANGED <<fetchLog, rSteps>>
  /\ UNCHANGED exceptRetrieve

\* response.arrayBuffer() resolved: CarReader.fromBytes is called
BodyResolve ==
  /\ rt.pc = "body"
  /\ rt' = [rt EXCEPT !.pc = "car"]
  /\ rSteps' = Append(rSteps, "decode")
  /\ UNCHANGED fetchLog
  /\ UNCHANGED exceptRetrieve

\* reading the body rejects
BodyReject ==
  /\ rt.pc = "body"
  /\ \E t \in RetrieveThrows :
       rt' = [rt EXCEPT !.pc = "rejected", !.error = t]
  /\ UNCHANGED <<fetchLog, rSteps>>
  /\ UNCHANGED exceptRetrieve

\* the CAR was decoded: the exporter walks the DAG
CarResolve ==
  /\ rt.pc = "car"
  /\ rt' = [rt EXCEPT !.pc = "export"]
  /\ rSteps' = Append(rSteps, "walk")
  /\ UNCHANGED fetchLog
  /\ UNCHANGED exceptRetrieve

\* CarReader.fromBytes rejects
CarReject ==
  /\ rt.pc = "car"
  /\ \E t \in RetrieveThrows :
       rt' = [rt EXCEPT !.pc = "rejected", !.error = t]
  /\ UNCHANGED <<fetchLog, rSteps>>
  /\ UNCHANGED exceptRetrieve

\* the exporter found the entry: streamToBase64 drains its content
ExportResolve ==
  /\ rt.pc = "export"
  /\ rt' = [rt EXCEPT !.pc = "stream"]
  /\ rSteps' = Append(rSteps, "base64")
  /\ UNCHANGED fetchLog
  /\ UNCHANGED exceptRetrieve

\* the exporter rejects
ExportReject ==
  /\ rt.pc = "export"
  /\ \E t \in RetrieveThrows :
       rt' = [rt EXCEPT !.pc = "rejected", !.error = t]
  /\ UNCHANGED <<fetchLog, rSteps>>
  /\ UNCHANGED exceptRetrieve

\* the stream ended: the bytes are encoded and retrieve returns
StreamResolve ==
  /\ rt.pc = "stream"
  /\ \E chunks \in FileStreams :
       rt' = [rt EXCEPT !.pc = "resolved",
                        !.content = chunks,
                        !.result = retrieveResult(chunks, rt.options, rt.response)]
  /\ UNCHANGED <<fetchLog, rSteps>>
  /\ UNCHANGED exceptRetrieve

\* the content stream throws while it is drained
StreamReject ==
  /\ rt.pc = "stream"
  /\ \E t \in RetrieveThrows :
       rt' = [rt EXCEPT !.pc = "rejected", !.error = t]
  /\ UNCHANGED <<fetchLog, rSteps>>
  /\ UNCHANGED exceptRetrieve

\* the caller has taken the outcome of the call
RetrieveSettled ==
  /\ rt.pc \in {"resolved", "rejected"}
  /\ rt' = NoRetrieve
  /\ fetchLog' = <<>>
  /\ rSteps' = <<>>
  /\ UNCHANGED exceptRetrieve

RetrieveIdle ==
  /\ rt = NoRetrieve
  /\ fetchLog = <<>>
  /\ rSteps = <<>>

(***************************************************************************)
(* upload tool                                                             *)
(***************************************************************************)
\* the configurations uploadTool may be built over
StorageConfigs ==
  [signer : BOOLEAN,
   delegation : {"undefined", "proofDefault"},
   gatewayUrl : {"undefined", "https://gw.test"}]

\* the delegation field of a request: absent, empty, a proof, the same proof
\* broken over two lines, or text that is no proof
DelegationInputs ==
  { [present |-> FALSE, value |-> <<>>],
    [present |-> TRUE, value |-> <<>>],
    [present |-> TRUE, value |-> <<"proof", "Req">>],
    [present |-> TRUE, value |-> <<"proof", "\n", " ", "Req">>],
    [present |-> TRUE, value |-> <<"junk">>] }

ToolInputs ==
  [file : Contents,
   name : {"a.txt", ""},
   delegation : DelegationInputs,
   gatewayUrl : {"undefined", "https://req.test", "nope"},
   publishToFilecoin : {"undefined", "true", "false"}]

\* a string option is truthy when it is present and not empty
Truthy(opt) == opt.present /\ opt.value # <<>>

\* data.replace(/\s+/g, '')
StripWhitespace(data) == SelectSeq(data, LAMBDA ch : ch \notin {" ", "\n", "\t", "\r"})

\* Proof.parse: the proof text denotes a delegation, anything else throws
ProofParse(cleanedData) ==
  IF cleanedData = <<"proof", "Req">>
    THEN [ok |-> TRUE, delegation |-> "proofReq", error |-> Nothing]
    ELSE [ok |-> FALSE, delegation |-> "undefined",
          error |-> NewError(<<"Unable to parse proof">>)]

DelegationRequired ==
  <<"Delegation is required",
    ". Please provide it either in the request or via the DELEGATION environment variable.">>

\* the content the handler returns from its catch block
UploadErrorContent(thrown) ==
  [error |-> TRUE, type |-> "text",
   text |-> <<"Upload failed: ">> \o
            (IF thrown.isError THEN thrown.message ELSE <<"Unknown error">>)]

\* url.href
Href(url) ==
  <<url.origin>> \o url.pathname
    \o (IF url.search = <<>> THEN <<>> ELSE <<"?">> \o url.search)
    \o (IF url.hash = <<>> THEN <<>> ELSE <<"#">> \o url.hash)

\* JSON.stringify(result): the link as {"/": root}, the URL as its href, and
\* the Map, which has no enumerable properties, as {}
JsonStringifyResult(result) ==
  <<"{\"root\":{\"/\":\"", result.root, "\"},\"url\":\"">> \o Href(result.url)
    \o <<"\",\"files\":{}}">>

UploadContent(result) ==
  [error |-> FALSE, type |-> "text", text |-> JsonStringifyResult(result)]

\* mutant of uploadToolEntry: a configured default wins over the request
uploadToolEntryDefaultFirst(input, cfg) ==
  IF cfg.delegation # "undefined"
    THEN [throw |-> Nothing, parse |-> <<>>]
  ELSE IF Truthy(input.delegation)
    THEN [throw |-> Nothing, parse |-> <<StripWhitespace(input.delegation.value)>>]
  ELSE [throw |-> NewError(DelegationRequired), parse |-> <<>>]

\* the handler up to its first await: it throws when neither delegation is
\* there, hands the request's delegation to Proof.parse, or goes on with the
\* configured one
uploadToolEntry(input, cfg) ==
  IF ~Truthy(input.delegation) /\ cfg.delegation = "undefined"
    THEN [throw |-> NewError(DelegationRequired), parse |-> <<>>]
  ELSE IF Truthy(input.delegation)
    THEN [throw |-> Nothing, parse |-> <<StripWhitespace(input.delegation.value)>>]
  ELSE [throw |-> Nothing, parse |-> <<>>]

\* the configuration the handler constructs its client with
uploadToolClientConfig(input, delegation, cfg) ==
  IF input.gatewayUrl = "nope"
    THEN [throw |-> ErrorOf("TypeError", <<"Invalid URL">>, <<>>), config |-> cfg]
    ELSE [throw |-> Nothing,
          config |-> [signer |-> cfg.signer,
                      delegation |-> delegation,
                      gatewayUrl |-> IF input.gatewayUrl # "undefined"
                                       THEN input.gatewayUrl ELSE cfg.gatewayUrl]]

NoContent == [error |-> FALSE, type |-> "none", text |-> <<>>]

NoTool ==
  [pc |-> "none", name |-> "none",
   input |-> [file |-> <<>>, name |-> "",
              delegation |-> [present |-> FALSE, value |-> <<>>],
              gatewayUrl |-> "undefined", publishToFilecoin |-> "undefined"],
   filepath |-> <<>>,
   result |-> NoContent]

\* the paths the retrieve tool is called with
ToolFilepaths ==
  { <<"bafyA", "/", "f">>, <<"ipfs", ":", "/", "/", "zA", "/", "d", "/", "f">>, <<"bafyA">> }

\* JSON.stringify({name, message, cause}) in the retrieve tool's catch block;
\* no value thrown inside retrieve carries a cause
RetrieveErrorContent(thrown) ==
  [error |-> TRUE, type |-> "text",
   text |-> <<"{\"name\":\"", IF thrown.isError THEN thrown.name ELSE "Error",
              "\",\"message\":\"">>
            \o (IF thrown.isError THEN thrown.message ELSE <<"Unknown error">>)
            \o <<"\",\"cause\":", "null", "}">>]

\* the identity tool's catch block: no error flag, and a cause that is
\* undefined is left out of the JSON text
IdentityErrorContent(thrown) ==
  [error |-> FALSE, type |-> "text",
   text |-> <<"{\"name\":\"", "Error", "\",\"message\":\"", "Identity check failed: ">>
            \o (IF thrown.isError THEN thrown.message ELSE <<"Unknown error">>)
            \o <<"\"}">>]

\* dagJSON.stringify(result): a type that is undefined cannot be encoded
DagJsonStringify(result) ==
  IF result.type = "undefined"
    THEN [throw |-> NewError(<<"undefined is not supported by the IPLD Data Model and cannot be encoded">>),
          text |-> <<>>]
    ELSE [throw |-> Nothing,
          text |-> <<"{\"data\":\"">> \o result.data \o <<"\",\"type\":\"", result.type, "\"}">>]

\* the identity tool's try block
identityToolEntry(cfg) ==
  IF cfg.signer
    THEN [throw |-> Nothing,
          content |-> [error |-> FALSE, type |-> "text",
                       text |-> <<"{\"id\":\"", "did:key:agent", "\"}">>]]
    ELSE [throw |-> ErrorOf("TypeError", <<"Cannot read properties of undefined (reading 'did')">>, <<>>),
          content |-> NoContent]

\* mutant of toolCatch: only Error instances are turned into content, any
\* other thrown value leaves the handler
toolCatchErrorsOnly(name, thrown) ==
  IF thrown.isError
    THEN [pc |-> "returned",
          result |-> IF name = "upload" THEN UploadErrorContent(thrown)
                     ELSE IF name = "retrieve" THEN RetrieveErrorContent(thrown)
                     ELSE IdentityErrorContent(thrown)]
    ELSE [pc |-> "rejected", result |-> NoContent]

\* the catch block of a handler: whatever was thrown, content is returned
toolCatch(name, thrown) ==
  [pc |-> "returned",
   result |-> IF name = "upload" THEN UploadErrorContent(thrown)
              ELSE IF name = "retrieve" THEN RetrieveErrorContent(thrown)
              ELSE IdentityErrorContent(thrown)]

\* mutant of sharedConfigAfterConstruct: the constructor fills in the
\* configuration object it was given
sharedConfigAliased(shared, clientCfg) == clientCfg

\* the shared configuration after a handler constructed a client: the
\* handler passes a new object and the constructor copies what it is given
sharedConfigAfterConstruct(shared, clientCfg) == shared

ToolReturns(input, content) ==
  tool' = [NoTool EXCEPT !.pc = "returned", !.name = "upload",
                         !.input = input, !.result = content]

\* the upload handler's catch block takes the thrown value
ToolCatches(input, thrown) ==
  LET c == toolCatch("upload", thrown)
  IN tool' = [NoTool EXCEPT !.pc = c.pc, !.name = "upload",
                            !.input = input, !.result = c.result]

\* new StorachaClient(...) and client.initialize() up to Storage.create
ToolConstruct(input, delegation) ==
  LET c == uploadToolClientConfig(input, delegation, storageConfig)
      cfg == StorachaClient(c.config)
      entry == initializeEntry("null", cfg)
  IN IF c.throw.thrown
       THEN /\ ToolCatches(input, c.throw)
            /\ UNCHANGED <<clientVars, clients, storageConfig>>
       ELSE /\ clients' = Append(clients, cfg)
            /\ storageConfig' = sharedConfigAfterConstruct(storageConfig, cfg)
            /\ config' = cfg
            /\ lastInit' = entry
            /\ storage' = "null"
            /\ initError' = Nothing
            /\ storageCalls' = IF entry = "started" THEN <<"create">> ELSE <<>>
            /\ IF entry = "started"
                 THEN /\ initialized' = "creating"
                      /\ tool' = [NoTool EXCEPT !.pc = "initializing", !.name = "upload",
                                                !.input = input]
                 ELSE /\ initialized' = "null"
                      /\ ToolCatches(input, NewError(<<entry>>))

\* the upload tool's handler is called with a request
ToolCall ==
  /\ tool.pc = "none"
  /\ \E input \in ToolInputs :
       LET e == uploadToolEntry(input, storageConfig)
       IN /\ proofParses' = e.parse
          /\ IF e.throw.thrown
               THEN /\ ToolCatches(input, e.throw)
                    /\ UNCHANGED <<clientVars, clients, storageConfig>>
             ELSE IF e.parse # <<>>
               THEN /\ tool' = [NoTool EXCEPT !.pc = "parsing", !.name = "upload",
                                              !.input = input]
                    /\ UNCHANGED <<clientVars, clients, storageConfig>>
             ELSE ToolConstruct(input, storageConfig.delegation)
  /\ UNCHANGED <<uploadVars, retrieveVars, codecVars, pathVars, concVars, sseVars>>

\* parseDelegation settled: its failure is caught, its delegation is the
\* client's
ParseSettled ==
  /\ tool.pc = "parsing"
  /\ LET p == ProofParse(proofParses[1])
     IN IF p.ok
          THEN ToolConstruct(tool.input, p.delegation)
          ELSE /\ ToolCatches(tool.input, p.error)
               /\ UNCHANGED <<clientVars, clients, storageConfig>>
  /\ UNCHANGED <<proofParses, uploadVars, retrieveVars, codecVars, pathVars, concVars, sseVars>>

\* initialize() rejected: the handler returns the failure
ToolInitializeFailed ==
  /\ tool.pc = "initializing"
  /\ initialized = "rejected"
  /\ ToolCatches(tool.input, initError)
  /\ UNCHANGED <<storageConfig, proofParses, clients>>
  /\ UNCHANGED exceptTool

\* initialize() resolved: the handler calls uploadFiles with the one file
ToolUploadFiles ==
  /\ tool.pc = "initializing"
  /\ initialized = "fulfilled"
  /\ UploadFilesCall(<< [name |-> tool.input.name, content |-> tool.input.file] >>,
                     [signal |-> "undefined", retries |-> "3",
                      publishToFilecoin |-> IF tool.input.publishToFilecoin = "undefined"
                                              THEN "false" ELSE tool.input.publishToFilecoin],
                     FALSE)
  /\ tool' = [tool EXCEPT !.pc = "uploading"]
  /\ UNCHANGED <<storageConfig, proofParses, clients>>
  /\ UNCHANGED <<clientVars, retrieveVars, codecVars, pathVars, concVars, sseVars>>

\* uploadFiles settled: the handler returns its result or its failure
ToolUploadSettled ==
  /\ tool.pc = "uploading"
  /\ up.pc \in {"resolved", "rejected"}
  /\ IF up.pc = "resolved" THEN ToolReturns(tool.input, UploadContent(up.result))
     ELSE ToolCatches(tool.input, up.error)
  /\ UNCHANGED <<storageConfig, proofParses, clients>>
  /\ UNCHANGED exceptTool

\* the retrieve tool's handler is called: it constructs a client over the
\* shared configuration and calls retrieve with the path alone
RetrieveToolCall ==
  /\ tool.pc = "none"
  /\ \E filepath \in ToolFilepaths :
       LET cfg == StorachaClient(storageConfig)
       IN /\ clients' = Append(clients, cfg)
          /\ storageConfig' = sharedConfigAfterConstruct(storageConfig, cfg)
          /\ config' = cfg
          /\ RetrieveStart(filepath, [useMultiformatBase64 |-> "undefined"], cfg)
          /\ tool' = [NoTool EXCEPT !.pc = "retrieving", !.name = "retrieve",
                                    !.filepath = filepath]
  /\ UNCHANGED <<initialized, storage, initError, lastInit, storageCalls, proofParses>>
  /\ UNCHANGED <<uploadVars, codecVars, pathVars, concVars, sseVars>>

\* retrieve settled: the handler encodes the result, and returns the text or
\* the failure of the call or of the encoding
ToolRetrieveSettled ==
  /\ tool.pc = "retrieving"
  /\ rt.pc \in {"resolved", "rejected"}
  /\ LET s == DagJsonStringify(rt.result)
         thrown == IF rt.pc = "rejected" THEN rt.error ELSE s.throw
         c == toolCatch("retrieve", thrown)
     IN IF thrown.thrown
          THEN tool' = [tool EXCEPT !.pc = c.pc, !.result = c.result]
          ELSE tool' = [tool EXCEPT !.pc = "returned",
                                    !.result = [error |-> FALSE, type |-> "text", text |-> s.text]]
  /\ UNCHANGED <<storageConfig, proofParses, clients>>
  /\ UNCHANGED exceptTool

\* the identity tool's handler is called
IdentityToolCall ==
  /\ tool.pc = "none"
  /\ LET e == identityToolEntry(storageConfig)
         c == toolCatch("identity", e.throw)
     IN tool' = [NoTool EXCEPT !.pc = IF e.throw.thrown THEN c.pc ELSE "returned",
                               !.name = "identity",
                               !.result = IF e.throw.thrown THEN c.result ELSE e.content]
  /\ UNCHANGED <<storageConfig, proofParses, clients>>
  /\ UNCHANGED exceptTool

\* the call is over: its client and everything local to it are dropped
ToolDone ==
  /\ tool.pc \in {"returned", "rejected"}
  /\ tool' = NoTool
  /\ proofParses' = <<>>
  /\ clients' = <<>>
  /\ config' = StorachaClient([signer |-> TRUE, delegation |-> "proofDefault",
                               gatewayUrl |-> "undefined"])
  /\ initialized' = "null" /\ storage' = "null"
  /\ initError' = Nothing /\ lastInit' = "none" /\ storageCalls' = <<>>
  /\ up' = NoUpload /\ signalAborted' = FALSE /\ udCalls' = <<>>
  /\ uploadedFiles' = <<>> /\ linked' = NoLinks
  /\ rt' = NoRetrieve /\ fetchLog' = <<>> /\ rSteps' = <<>>
  /\ UNCHANGED <<storageConfig, codecVars, pathVars, concVars, sseVars>>

ToolIdle ==
  /\ storageConfig = [signer |-> TRUE, delegation |-> "proofDefault", gatewayUrl |-> "undefined"]
  /\ tool = NoTool
  /\ proofParses = <<>>
  /\ clients = <<>>

(***************************************************************************)
(* normalizeIpfsPath, and the paths both path functions are applied to     *)
(***************************************************************************)
normalizeIpfsPath(path) ==
  LET afterScheme == IF StartsWith(path, <<"ipfs", ":", "/", "/">>) THEN Drop(path, 4) ELSE path
  IN IF StartsWith(afterScheme, <<"/", "ipfs", "/">>) THEN Drop(afterScheme, 3)
     ELSE IF StartsWith(afterScheme, <<"ipfs", "/">>) THEN Drop(afterScheme, 2)
     ELSE afterScheme

\* the pieces paths are made of: the word ipfs, the colon and the slash of the
\* prefixes, a content id, and a word that is no content id
PathTokens == {"ipfs", ":", "/", "bafyA", "f"}

TestPaths == SeqsUpTo(PathTokens, MaxPathLen)

NoResource ==
  [ok |-> FALSE, protocol |-> "", cid |-> "", pathname |-> <<>>, error |-> Nothing]

\* parseIpfsPath(pIn) returns or throws
ParsePath ==
  /\ ppc = "idle"
  /\ pOut' = parseIpfsPath(pIn)
  /\ ppc' = "parsed"
  /\ UNCHANGED <<pIn, pNorm1, pNorm2>>
  /\ UNCHANGED exceptPath

\* normalizeIpfsPath(pIn) returns
NormalizePath ==
  /\ ppc = "idle"
  /\ pNorm1' = normalizeIpfsPath(pIn)
  /\ ppc' = "normalized"
  /\ UNCHANGED <<pIn, pOut, pNorm2>>
  /\ UNCHANGED exceptPath

\* normalizeIpfsPath is applied to its own result
NormalizeAgain ==
  /\ ppc = "normalized"
  /\ pNorm2' = normalizeIpfsPath(pNorm1)
  /\ ppc' = "normalized2"
  /\ UNCHANGED <<pIn, pOut, pNorm1>>
  /\ UNCHANGED exceptPath

PathIdle ==
  /\ pIn = <<>> /\ pOut = NoResource
  /\ pNorm1 = <<>> /\ pNorm2 = <<>>
  /\ ppc = "idle"

(***************************************************************************)
(* tool calls in flight at the same time                                   *)
(***************************************************************************)
CallIds == 1..MaxCalls

\* requests of the concurrent upload calls: with or without a delegation
\* and a gateway of their own
ConcInputs ==
  {i \in ToolInputs :
     /\ i.file = <<"Q", "Q", "=", "=">> /\ i.name = "a.txt"
     /\ i.publishToFilecoin = "undefined"
     /\ i.gatewayUrl # "nope"
     /\ i.delegation \in {[present |-> FALSE, value |-> <<>>],
                          [present |-> TRUE, value |-> <<"proof", "Req">>]}}

\* what one invocation of a handler holds: its request, its client, the Map
\* its uploadFiles call created, the URLs it fetched and what it returned
NoCall ==
  [pc |-> "none", name |-> "none", input |-> NoTool.input, filepath |-> <<>>,
   config |-> StorachaClient([signer |-> TRUE, delegation |-> "proofDefault",
                              gatewayUrl |-> "undefined"]),
   uploadedFiles |-> <<>>, invoke |-> <<>>, fetch |-> <<>>,
   value |-> [root |-> "none", url |-> "none", files |-> <<>>],
   result |-> NoContent]

\* mutant of linkTarget: one Map serves every call
linkTargetShared(c) == 1

\* the Map the link callback of call c writes to: the one created by the
\* uploadFiles call that passed the callback
linkTarget(c) == c

\* an upload handler starts: it parses the request's delegation, constructs
\* its client and calls initialize
ConcUploadBegin ==
  /\ \E c \in CallIds, input \in ConcInputs :
       LET e == uploadToolEntry(input, storageConfig)
           delegation == IF e.parse # <<>> THEN ProofParse(e.parse[1]).delegation
                         ELSE storageConfig.delegation
           cfg == StorachaClient(uploadToolClientConfig(input, delegation, storageConfig).config)
       IN /\ calls[c].pc = "none"
          /\ calls' = [calls EXCEPT ![c] = [NoCall EXCEPT !.pc = "initializing",
                                                           !.name = "upload",
                                                           !.input = input,
                                                           !.config = cfg]]
  /\ UNCHANGED <<reports, roots>>
  /\ UNCHANGED exceptConc

\* initialize() of a call settled: on success the handler calls uploadFiles,
\* which creates its Map and invokes uploadDirectory; on failure it returns
ConcInitializeSettled ==
  /\ \E c \in CallIds :
       /\ calls[c].pc = "initializing"
       /\ \/ LET e == uploadFilesEntry("fulfilled", "client",
                                       << [name |-> calls[c].input.name,
                                           content |-> calls[c].input.file] >>,
                                       [signal |-> "undefined", retries |-> "3",
                                        publishToFilecoin |-> "false"], FALSE)
             IN calls' = [calls EXCEPT ![c].pc = "uploading", ![c].invoke = e.invoke]
          \/ \E t \in InitThrows :
               calls' = [calls EXCEPT ![c].pc = "returned",
                                      ![c].result = toolCatch("upload", initializeFailure(t)).result]
  /\ UNCHANGED <<reports, roots>>
  /\ UNCHANGED exceptConc

\* the transport building the directory of call c reports a link to the
\* callback it was given
ConcLinked ==
  /\ \E c \in CallIds, name \in {"a.txt", ""}, cid \in ContentIds :
       /\ calls[c].pc = "uploading"
       /\ Len(reports[c]) < MaxReports
       /\ reports' = [reports EXCEPT ![c] = Append(@, <<name, cid>>)]
       /\ calls' = [calls EXCEPT ![linkTarget(c)].uploadedFiles =
                                    onDirectoryEntryLink(@, name, cid)]
  /\ UNCHANGED roots
  /\ UNCHANGED exceptConc

\* uploadDirectory of call c settled: the handler returns the result or the
\* failure
ConcUploadSettled ==
  /\ \E c \in CallIds :
       /\ calls[c].pc = "uploading"
       /\ \/ \E root \in {"root1", "root2"} :
               LET v == uploadResult(root, calls[c].config, calls[c].uploadedFiles)
               IN /\ calls' = [calls EXCEPT ![c].pc = "returned",
                                            ![c].value = v,
                                            ![c].result = UploadContent(v)]
                  /\ roots' = [roots EXCEPT ![c] = root]
          \/ \E t \in TransportThrows :
               /\ calls' = [calls EXCEPT ![c].pc = "returned",
                                         ![c].result = toolCatch("upload", t).result]
               /\ roots' = roots
  /\ UNCHANGED reports
  /\ UNCHANGED exceptConc

\* a retrieve handler starts: it constructs its client over the shared
\* configuration and retrieve runs up to the fetch
ConcRetrieveBegin ==
  /\ \E c \in CallIds, filepath \in ToolFilepaths :
       LET cfg == StorachaClient(storageConfig)
           e == retrieveEntry(filepath, cfg)
       IN /\ calls[c].pc = "none"
          /\ calls' = [calls EXCEPT ![c] =
                         [NoCall EXCEPT
                            !.pc = IF e.throw.thrown THEN "returned" ELSE "fetching",
                            !.name = "retrieve",
                            !.filepath = filepath,
                            !.config = cfg,
                            !.fetch = e.fetch,
                            !.result = IF e.throw.thrown
                                         THEN toolCatch("retrieve", e.throw).result
                                         ELSE NoContent]]
  /\ UNCHANGED <<reports, roots>>
  /\ UNCHANGED exceptConc

\* the rest of a retrieve call: the gateway answered and the file was read,
\* or a step failed
ConcRetrieveSettled ==
  /\ \E c \in CallIds :
       /\ calls[c].pc = "fetching"
       /\ \/ \E response \in {r \in Responses : r.contentType # "null"}, chunks \in FileStreams :
               LET f == responseFailure(response)
                   s == DagJsonStringify(retrieveResult(chunks, [useMultiformatBase64 |-> "undefined"],
                                                        response))
               IN calls' = [calls EXCEPT
                              ![c].pc = "returned",
                              ![c].result = IF f.thrown THEN toolCatch("retrieve", f).result
                                            ELSE [error |-> FALSE, type |-> "text", text |-> s.text]]
          \/ \E t \in RetrieveThrows :
               calls' = [calls EXCEPT ![c].pc = "returned",
                                      ![c].result = toolCatch("retrieve", t).result]
  /\ UNCHANGED <<reports, roots>>
  /\ UNCHANGED exceptConc

\* a call is over: what it held is dropped
ConcDone ==
  /\ \E c \in CallIds :
       /\ calls[c].pc = "returned"
       /\ calls' = [calls EXCEPT ![c] = NoCall]
       /\ reports' = [reports EXCEPT ![c] = <<>>]
       /\ roots' = [roots EXCEPT ![c] = "none"]
  /\ UNCHANGED exceptConc

ConcIdle ==
  /\ calls = [c \in CallIds |-> NoCall]
  /\ reports = [c \in CallIds |-> <<>>]
  /\ roots = [c \in CallIds |-> "none"]

(***************************************************************************)
(* SSE transport: GET /sse, POST /messages, GET /health                    *)
(***************************************************************************)
\* GET /sse requests the server may receive
SseRequests == 1..MaxSessions

\* transport.sessionId of the transport created for request r: every
\* SSEServerTransport draws an identifier of its own
SessionIdOf(r) == <<"s", r>>

\* a sessionId of a request: absent, the empty string, the identifier of a
\* transport, or an identifier no transport has
SessionParams ==
  { [present |-> FALSE, value |-> <<>>], [present |-> TRUE, value |-> <<>>],
    [present |-> TRUE, value |-> <<"s", 0>>] }
  \cup { [present |-> TRUE, value |-> SessionIdOf(r)] : r \in SseRequests }

NoAnswer == [status |-> "none", code |-> 0, message |-> ""]

\* res.status(s).json({jsonrpc, id, error: {code, message}})
JsonRpcError(status, code, message) ==
  [status |-> status, code |-> code, message |-> message]

\* mutant of postMessagesEntry: the body is asked before the query
postMessagesEntryBodyFirst(server, query, body, conns) ==
  LET fromBody == IF body.present /\ body.value # <<>> THEN body.value ELSE <<>>
      sessionId == IF fromBody # <<>> THEN fromBody
                   ELSE IF query.present THEN query.value ELSE <<>>
  IN IF server = "null"
       THEN [answer |-> JsonRpcError("503", -32000, "Server not initialized"),
             sessionId |-> sessionId, dispatch |-> FALSE]
     ELSE IF sessionId = <<>>
       THEN [answer |-> JsonRpcError("400", -32602, "No session ID provided. Please provide a sessionId query parameter or connect to /sse first."),
             sessionId |-> sessionId, dispatch |-> FALSE]
     ELSE IF sessionId \notin conns
       THEN [answer |-> JsonRpcError("404", -32000, "Session not found"),
             sessionId |-> sessionId, dispatch |-> FALSE]
     ELSE [answer |-> NoAnswer, sessionId |-> sessionId, dispatch |-> TRUE]

\* the POST /messages handler up to `await transport.handlePostMessage`:
\* req.query.sessionId?.toString(), else req.body?.params?.sessionId, each
\* taken only when truthy; then the look-up in the connections map
postMessagesEntry(server, query, body, conns) ==
  LET fromQuery == IF query.present THEN query.value ELSE <<>>
      sessionId == IF fromQuery # <<>> THEN fromQuery
                   ELSE IF body.present /\ body.value # <<>> THEN body.value
                   ELSE <<>>
  IN IF server = "null"
       THEN [answer |-> JsonRpcError("503", -32000, "Server not initialized"),
             sessionId |-> fromQuery, dispatch |-> FALSE]
     ELSE IF sessionId = <<>>
       THEN [answer |-> JsonRpcError("400", -32602, "No session ID provided. Please provide a sessionId query parameter or connect to /sse first."),
             sessionId |-> sessionId, dispatch |-> FALSE]
     ELSE IF sessionId \notin conns
       THEN [answer |-> JsonRpcError("404", -32000, "Session not found"),
             sessionId |-> sessionId, dispatch |-> FALSE]
     ELSE [answer |-> NoAnswer, sessionId |-> sessionId, dispatch |-> TRUE]

\* mutant of connectionsDelete: the entry stays in the map
connectionsKeep(conns, sessionId) == conns

\* connections.delete(transport.sessionId)
connectionsDelete(conns, sessionId) == conns \ {sessionId}

NoSse == [pc |-> "none", sessionId |-> <<>>, closed |-> FALSE, status |-> "none"]

NoPost ==
  [pc |-> "none", query |-> [present |-> FALSE, value |-> <<>>],
   body |-> [present |-> FALSE, value |-> <<>>],
   sessionId |-> <<>>, target |-> "none", threw |-> FALSE, answer |-> NoAnswer]

NoHealth == [status |-> "none", activeConnections |-> 0, connectedSessionIds |-> {}]

\* the state of the GET /sse request that holds a session
SsePcOf(requests, sessionId) ==
  IF \E r \in SseRequests : requests[r].sessionId = sessionId
    THEN requests[CHOOSE r \in SseRequests : requests[r].sessionId = sessionId].pc
    ELSE "none"

\* GET /sse: the transport is created and registered, the close listener is
\* attached and mcpServer.connect is awaited; when the constructor throws,
\* the catch block answers 500 and nothing was registered
SseGet ==
  /\ \E r \in SseRequests :
       /\ sse[r].pc = "none"
       /\ \A q \in SseRequests : q < r => sse[q].pc # "none"
       /\ IF mcpServer = "null"
            THEN /\ sse' = [sse EXCEPT ![r] = [NoSse EXCEPT !.pc = "failed", !.status = "503"]]
                 /\ UNCHANGED connections
            ELSE \/ /\ sse' = [sse EXCEPT ![r] = [NoSse EXCEPT !.pc = "connecting",
                                                                 !.sessionId = SessionIdOf(r)]]
                    /\ connections' = connections \cup {SessionIdOf(r)}
                 \/ /\ sse' = [sse EXCEPT ![r] = [NoSse EXCEPT !.pc = "failed", !.status = "500"]]
                    /\ UNCHANGED connections
  /\ UNCHANGED <<mcpServer, post, health>>
  /\ UNCHANGED exceptSse

\* mcpServer.connect(transport) resolved: the session_init notification is
\* written to the response
SseConnected ==
  /\ \E r \in SseRequests :
       /\ sse[r].pc = "connecting"
       /\ sse' = [sse EXCEPT ![r].pc = "open", ![r].status = "200"]
  /\ UNCHANGED <<mcpServer, connections, post, health>>
  /\ UNCHANGED exceptSse

\* mcpServer.connect(transport) rejected, or writing the notification threw:
\* the catch block removes the session and answers 500
SseConnectFailed ==
  /\ \E r \in SseRequests :
       /\ sse[r].pc = "connecting"
       /\ connections' = connectionsDelete(connections, sse[r].sessionId)
       /\ sse' = [sse EXCEPT ![r].pc = "failed", ![r].status = "500"]
  /\ UNCHANGED <<mcpServer, post, health>>
  /\ UNCHANGED exceptSse

\* the 'close' event of a GET /sse request whose listener was attached
SseClose ==
  /\ \E r \in SseRequests :
       /\ sse[r].pc \in {"connecting", "open", "failed"}
       /\ sse[r].sessionId # <<>>
       /\ ~sse[r].closed
       /\ connections' = connectionsDelete(connections, sse[r].sessionId)
       /\ sse' = [sse EXCEPT ![r].closed = TRUE]
  /\ UNCHANGED <<mcpServer, post, health>>
  /\ UNCHANGED exceptSse

\* POST /messages: answered at once, or handed to the session's transport
PostMessages ==
  /\ post.pc = "none"
  /\ \E query \in SessionParams, body \in SessionParams :
       LET e == postMessagesEntry(mcpServer, query, body, connections)
       IN post' = [NoPost EXCEPT
                     !.pc = IF e.dispatch THEN "handling" ELSE "answered",
                     !.query = query, !.body = body,
                     !.sessionId = e.sessionId,
                     !.target = IF e.dispatch THEN SsePcOf(sse, e.sessionId) ELSE "none",
                     !.answer = e.answer]
  /\ UNCHANGED <<mcpServer, connections, sse, health>>
  /\ UNCHANGED exceptSse

\* transport.handlePostMessage resolved: the transport has answered
PostHandled ==
  /\ post.pc = "handling"
  /\ post' = [post EXCEPT !.pc = "answered", !.answer = [NoAnswer EXCEPT !.status = "202"]]
  /\ UNCHANGED <<mcpServer, connections, sse, health>>
  /\ UNCHANGED exceptSse

\* transport.handlePostMessage threw new Error('boom'): the catch block
\* answers 500 with the error written into the message
PostThrew ==
  /\ post.pc = "handling"
  /\ post' = [post EXCEPT !.pc = "answered", !.threw = TRUE,
                          !.answer = JsonRpcError("500", -32000, "Internal server error: Error: boom")]
  /\ UNCHANGED <<mcpServer, connections, sse, health>>
  /\ UNCHANGED exceptSse

\* the response of the POST went out
PostDone ==
  /\ post.pc = "answered"
  /\ post' = NoPost
  /\ UNCHANGED <<mcpServer, connections, sse, health>>
  /\ UNCHANGED exceptSse

\* GET /health
Health ==
  /\ health' = [status |-> "200", activeConnections |-> Cardinality(connections),
                connectedSessionIds |-> connections]
  /\ UNCHANGED <<mcpServer, connections, sse, post>>
  /\ UNCHANGED exceptSse

SseIdle ==
  /\ mcpServer = "server"
  /\ connections = {}
  /\ sse = [r \in SseRequests |-> NoSse]
  /\ post = NoPost
  /\ health = NoHealth

ClientInit ==
  /\ config \in {StorachaClient(c) : c \in ClientConfigs}
  /\ initialized = "null"
  /\ storage = "null"
  /\ initError = Nothing
  /\ lastInit = "none"
  /\ storageCalls = <<>>

ClientIdle ==
  /\ config = StorachaClient([signer |-> TRUE, delegation |-> "proofDefault",
                              gatewayUrl |-> "undefined"])
  /\ initialized = "null"
  /\ storage = "null"
  /\ initError = Nothing
  /\ lastInit = "none"
  /\ storageCalls = <<>>

UploadIdle ==
  /\ up = NoUpload
  /\ signalAborted = FALSE
  /\ udCalls = <<>>
  /\ uploadedFiles = <<>>
  /\ linked = NoLinks

CodecIdle ==
  /\ cKind = "rt" /\ cChunks = <<>> /\ cMode = FALSE /\ cStr = <<>>
  /\ cText = <<>> /\ cpc = "idle"
  /\ cOut = [ok |-> FALSE, bytes |-> <<>>, error |-> "none"]

Init == ClientInit /\ UploadIdle /\ RetrieveIdle /\ ToolIdle /\ PathIdle /\ ConcIdle /\ SseIdle /\ CodecIdle

Next ==
  \/ Initialize
  \/ CreateResolve
  \/ CreateReject
  \/ AddSpaceResolve
  \/ AddSpaceReject
  \/ UploadFilesAction
  \/ DirectoryEntryLinked
  \/ UploadDirectoryResolve
  \/ UploadDirectoryReject
  \/ AbortSignal
  \/ UploadSettled

Spec == Init /\ [][Next]_vars

\* retrieve on a client constructed with either gateway, which may be
\* initialized before, while or after retrieve runs, or never
RetrieveInit ==
  /\ config \in {StorachaClient(c) : c \in {k \in ClientConfigs :
                                             k.signer /\ k.delegation # "undefined"}}
  /\ initialized = "null" /\ storage = "null"
  /\ initError = Nothing /\ lastInit = "none" /\ storageCalls = <<>>
  /\ UploadIdle /\ RetrieveIdle /\ ToolIdle /\ PathIdle /\ ConcIdle /\ SseIdle /\ CodecIdle

RetrieveNext ==
  \/ Initialize
  \/ CreateResolve
  \/ CreateReject
  \/ AddSpaceResolve
  \/ AddSpaceReject
  \/ RetrieveCall
  \/ FetchResolve
  \/ FetchReject
  \/ BodyResolve
  \/ BodyReject
  \/ CarResolve
  \/ CarReject
  \/ ExportResolve
  \/ ExportReject
  \/ StreamResolve
  \/ StreamReject
  \/ RetrieveSettled

SpecRetrieve == RetrieveInit /\ [][RetrieveNext]_vars

\* the upload tool serving one request at a time with a client of its own
ToolInit ==
  /\ storageConfig \in StorageConfigs
  /\ tool = NoTool
  /\ proofParses = <<>>
  /\ clients = <<>>
  /\ ClientIdle /\ UploadIdle /\ RetrieveIdle /\ PathIdle /\ ConcIdle /\ SseIdle /\ CodecIdle

ToolNext ==
  \/ ToolCall
  \/ ParseSettled
  \/ CreateResolve
  \/ CreateReject
  \/ AddSpaceResolve
  \/ AddSpaceReject
  \/ ToolInitializeFailed
  \/ ToolUploadFiles
  \/ DirectoryEntryLinked
  \/ UploadDirectoryResolve
  \/ UploadDirectoryReject
  \/ ToolUploadSettled
  \/ RetrieveToolCall
  \/ FetchResolve
  \/ FetchReject
  \/ BodyResolve
  \/ BodyReject
  \/ CarResolve
  \/ CarReject
  \/ ExportResolve
  \/ ExportReject
  \/ StreamResolve
  \/ StreamReject
  \/ ToolRetrieveSettled
  \/ IdentityToolCall
  \/ ToolDone

SpecTool == ToolInit /\ [][ToolNext]_vars

\* the path functions applied to every path of bounded length
PathInit ==
  /\ pIn \in TestPaths
  /\ pOut = NoResource
  /\ pNorm1 = <<>> /\ pNorm2 = <<>>
  /\ ppc = "idle"
  /\ ClientIdle /\ UploadIdle /\ RetrieveIdle /\ ToolIdle /\ ConcIdle /\ SseIdle /\ CodecIdle

PathNext ==
  \/ ParsePath
  \/ NormalizePath
  \/ NormalizeAgain

SpecPath == PathInit /\ [][PathNext]_vars

\* handler invocations interleaved over one shared configuration
ConcInit ==
  /\ ConcIdle
  /\ ClientIdle /\ UploadIdle /\ RetrieveIdle /\ ToolIdle /\ PathIdle /\ SseIdle /\ CodecIdle

ConcNext ==
  \/ ConcUploadBegin
  \/ ConcInitializeSettled
  \/ ConcLinked
  \/ ConcUploadSettled
  \/ ConcRetrieveBegin
  \/ ConcRetrieveSettled
  \/ ConcDone

SpecConcurrent == ConcInit /\ [][ConcNext]_vars

\* the SSE transport serving GET /sse, POST /messages and GET /health
SseInit ==
  /\ SseIdle
  /\ ClientIdle /\ UploadIdle /\ RetrieveIdle /\ ToolIdle /\ PathIdle /\ ConcIdle /\ CodecIdle

SseNext ==
  \/ SseGet
  \/ SseConnected
  \/ SseConnectFailed
  \/ SseClose
  \/ PostMessages
  \/ PostHandled
  \/ PostThrew
  \/ PostDone
  \/ Health

SpecSse == SseInit /\ [][SseNext]_vars

(***************************************************************************)
(* Claims about uploadFiles                                                *)
(***************************************************************************)
UploadRejectedWith(msg) ==
  /\ up.pc = "rejected"
  /\ up.error.isError
  /\ up.error.message = <<msg>>

\* C1: on an initialized client, a call whose signal is already aborted at
\* entry rejects with 'Upload aborted' and never invokes uploadDirectory.
C1_AbortedAtEntry ==
  (up.pc # "none" /\ up.initializedAtEntry = "fulfilled" /\ up.abortedAtEntry) =>
    (UploadRejectedWith("Upload aborted") /\ udCalls = <<>>)

\* C1 witness: such a call, with files that decode, has been made and rejected.
C1_Witness ==
  /\ up.pc = "rejected" /\ up.initializedAtEntry = "fulfilled" /\ up.abortedAtEntry
  /\ Len(up.files) = 2
  /\ \A i \in 1..Len(up.files) : base64ToBytes(up.files[i].content).ok
  /\ up.error.message = <<"Upload aborted">>

\* C2: on a client whose initialize() never started the initialization,
\* uploadFiles rejects with 'Client not initialized' whatever the files and the
\* options, the signal state included, and never invokes uploadDirectory.
C2_NotInitialized ==
  (up.pc # "none" /\ up.initializedAtEntry = "null") =>
    (UploadRejectedWith("Client not initialized") /\ udCalls = <<>>)

\* C2 witness: the call was made with an already aborted signal on a client
\* that was never initialized.
C2_Witness ==
  /\ up.pc = "rejected" /\ up.initializedAtEntry = "null" /\ up.abortedAtEntry
  /\ Len(up.files) > 0
  /\ up.error.message = <<"Client not initialized">>

InputNames == {up.files[i].name : i \in 1..Len(up.files)}

TimesAsKey(m, k) == Cardinality({i \in 1..Len(m) : m[i][1] = k})

\* C4 (as claimed): on a successful return every input name for which the
\* link callback fired is a key exactly once, mapped to the reported content
\* id, and an input name for which no callback fired is absent.
C4_EveryLinkedInputIsKey ==
  (up.pc = "resolved") =>
    \A n \in InputNames :
      IF linked[n] # "none"
        THEN TimesAsKey(up.result.files, n) = 1 /\ MapGet(up.result.files, n) = linked[n]
        ELSE n \notin MapKeys(up.result.files)

\* C4 (amended): on a successful return the keys are exactly the non-empty
\* names the link callback reported, each once, mapped to the content id last
\* reported for it; an input name without a callback, and the empty name, are
\* absent.
C4_KeysAreLinkedNames ==
  (up.pc = "resolved") =>
    /\ MapKeys(up.result.files) = {n \in Names : n # "" /\ linked[n] # "none"}
    /\ \A n \in MapKeys(up.result.files) :
         TimesAsKey(up.result.files, n) = 1 /\ MapGet(up.result.files, n) = linked[n]
    /\ \A n \in InputNames :
         (linked[n] = "none" \/ n = "") => n \notin MapKeys(up.result.files)

\* C4 witness: a.txt and b.txt were uploaded, both linked with different
\* content ids, and the call returned exactly these two keys and one root.
C4_Witness ==
  /\ up.pc = "resolved"
  /\ Len(up.files) = 2 /\ up.files[1].name = "a.txt" /\ up.files[2].name = "b.txt"
  /\ MapKeys(up.result.files) = {"a.txt", "b.txt"}
  /\ MapGet(up.result.files, "a.txt") # MapGet(up.result.files, "b.txt")
  /\ up.result.root \in RootIds

AllDecode(files) == \A i \in 1..Len(files) : base64ToBytes(files[i].content).ok

\* C5 (as claimed): every call that passes the entry checks submits all its
\* files in exactly one uploadDirectory invocation.
C5_PassedMeansOneInvocation ==
  (up.pc # "none" /\ up.passed) => Len(udCalls) = 1

\* C5 (amended): a call that passes the entry checks and whose contents all
\* decode makes exactly one uploadDirectory invocation, carrying all N files in
\* order and the caller's retry count (3 when none is given); a call with a
\* content that does not decode makes none; the invocation is never repeated,
\* whatever the transport answers, and a resolved call carries its one root.
C5_OneInvocation ==
  /\ Len(udCalls) <= 1
  /\ (up.pc # "none" /\ up.passed /\ AllDecode(up.files)) =>
       /\ Len(udCalls) = 1
       /\ Len(udCalls[1].files) = Len(up.files)
       /\ \A i \in 1..Len(up.files) :
            /\ udCalls[1].files[i].name = up.files[i].name
            /\ udCalls[1].files[i].bytes = base64ToBytes(up.files[i].content).bytes
       /\ udCalls[1].retries =
            (IF up.options.retries = "undefined" THEN "3" ELSE up.options.retries)
  /\ (up.pc # "none" /\ up.passed /\ ~AllDecode(up.files)) =>
       (udCalls = <<>> /\ up.pc = "rejected")
  /\ (up.pc = "resolved") => (Len(udCalls) = 1 /\ up.result.root \in RootIds)

\* C5 witness: a call with two files and a retry count of its own was
\* rejected by the transport after its single invocation.
C5_Witness ==
  /\ up.pc = "rejected" /\ up.passed
  /\ Len(up.files) = 2 /\ up.options.retries = "5"
  /\ Len(udCalls) = 1 /\ udCalls[1].retries = "5"
  /\ up.error.message = <<"Upload failed">>


(***************************************************************************)
(* Codec specification: the inputs are drawn in Init, the actions apply    *)
(* the two conversions.                                                    *)
(***************************************************************************)
\* byte values: 152..155 are the bytes whose standard base64 begins with 'm'
TestBytes == {0, 65, 152, 255}

\* characters of the strings handed to base64ToBytes: alphabet characters,
\* padding, the multibase marker, a URL-safe character and illegal ones
TestChars == {"A", "Q", "m", "=", "-", "!", "data:", ";base64,"}

ByteChunks == SeqsUpTo(TestBytes, MaxChunkLen)
Streams == SeqsUpTo(ByteChunks, MaxChunks)
TestStrings == SeqsUpTo(TestChars, MaxStrLen)

NoResult == [ok |-> FALSE, bytes |-> <<>>, error |-> "none"]

CodecInit ==
  /\ ClientIdle /\ UploadIdle /\ RetrieveIdle /\ ToolIdle /\ PathIdle /\ ConcIdle /\ SseIdle
  /\ cpc = "start"
  /\ cText = <<>>
  /\ cOut = NoResult
  /\ \/ /\ cKind = "rt"
        /\ cChunks \in Streams
        /\ cMode \in BOOLEAN
        /\ cStr = <<>>
     \/ /\ cKind = "dec"
        /\ cChunks = <<>>
        /\ cMode = FALSE
        /\ cStr \in TestStrings

\* encode the stream (RetrieveResult.data)
Encode ==
  /\ cKind = "rt" /\ cpc = "start"
  /\ cText' = streamToBase64(cChunks, cMode)
  /\ cpc' = "encoded"
  /\ UNCHANGED <<cKind, cChunks, cMode, cStr, cOut>>
  /\ UNCHANGED exceptCodec

\* decode what was encoded
DecodeEncoded ==
  /\ cKind = "rt" /\ cpc = "encoded"
  /\ cOut' = base64ToBytes(cText)
  /\ cpc' = "decoded"
  /\ UNCHANGED <<cKind, cChunks, cMode, cStr, cText>>
  /\ UNCHANGED exceptCodec

\* decode an arbitrary string
DecodeString ==
  /\ cKind = "dec" /\ cpc = "start"
  /\ cOut' = base64ToBytes(cStr)
  /\ cpc' = "decoded"
  /\ UNCHANGED <<cKind, cChunks, cMode, cStr, cText>>
  /\ UNCHANGED exceptCodec

CodecNext ==
  \/ Encode
  \/ DecodeEncoded
  \/ DecodeString

SpecCodec == CodecInit /\ [][CodecNext]_vars

(***************************************************************************)
(* Claims about the codec                                                  *)
(***************************************************************************)
\* C9 (as claimed): for every byte sequence and both encoding modes, decoding
\* what streamToBase64 produced returns exactly the bytes that were encoded.
C9_RoundTrip ==
  (cKind = "rt" /\ cpc = "decoded") =>
    (cOut.ok /\ cOut.bytes = ConcatChunks(cChunks))

\* the 65 characters of base64 text: the alphabet and the padding character
Base64Chars == AlphabetChars \cup {"="}

HasOutsideChar(s) == \E i \in 1..Len(s) : s[i] \notin Base64Chars

\* C10: a string that, after removal of a leading data-URL prefix, contains a
\* character outside the base64 alphabet is rejected with 'Invalid base64
\* format'; base64ToBytes never returns bytes for it.
C10_RejectsOutsideAlphabet ==
  (cKind = "dec" /\ cpc = "decoded" /\ HasOutsideChar(StripDataUrlPrefix(cStr))) =>
    (~cOut.ok /\ cOut.error = "Invalid base64 format")

\* C10 witness: a string whose data-URL prefix was removed and whose remainder
\* mixes legal and illegal characters has been decoded and rejected.
C10_Witness ==
  /\ cKind = "dec" /\ cpc = "decoded"
  /\ StripDataUrlPrefix(cStr) # cStr
  /\ HasOutsideChar(StripDataUrlPrefix(cStr))
  /\ \E i \in 1..Len(StripDataUrlPrefix(cStr)) : StripDataUrlPrefix(cStr)[i] \in AlphabetChars
  /\ cOut.error = "Invalid base64 format"


(***************************************************************************)
(* Claims about retrieve                                                   *)
(***************************************************************************)
StepOrder == <<"resolve", "fetch", "decode", "walk", "base64">>

IsPrefix(s, t) == Len(s) <= Len(t) /\ SubSeq(t, 1, Len(s)) = s

Contains(s, part) == \E i \in 1..Len(s) : s[i] = part

\* C6: the steps of retrieve start in the order path resolution, gateway
\* fetch, container decode, DAG walk, base64 transcoding; a call whose path
\* resolves issues exactly one fetch; a call whose path does not resolve
\* issues none and rejects with the resolver's path error, unchanged.
C6_StrictSequence ==
  /\ IsPrefix(rSteps, StepOrder)
  /\ rt.pc = "resolved" => rSteps = StepOrder
  /\ rt.pc # "none" =>
       LET r == parseIpfsPath(rt.filepath)
       IN IF r.ok THEN Len(fetchLog) = 1
          ELSE /\ Len(fetchLog) = 0
               /\ rt.pc = "rejected"
               /\ rt.error = r.error
               /\ r.error.name = "IpfsPathError"
               /\ r.error.path = rt.filepath

\* C6 witness: a call resolved after one fetch and all five steps
C6_Witness ==
  /\ rt.pc = "resolved"
  /\ rSteps = StepOrder
  /\ Len(fetchLog) = 1

\* C7: for every filepath the resolver accepts, the requested URL is the
\* gateway followed by /ipfs/, the content id and the pathname, and its
\* query carries the parameter format=car.
C7_RequestUrl ==
  \A i \in 1..Len(fetchLog) :
    LET r == parseIpfsPath(rt.filepath)
    IN /\ fetchLog[i].origin = config.gatewayUrl
       /\ fetchLog[i].pathname = <<"/", "ipfs", "/", CidToString(r.cid)>> \o r.pathname
       /\ << <<"format">>, <<"car">> >> \in SearchParams(fetchLog[i])

\* C8: after a gateway answer with a status outside 200..299 the call is
\* rejected with an Error whose message contains the status number and the
\* status text, and neither the container decode nor the DAG walk started.
C8_NonOkRejects ==
  (rt.response # NoResponse /\ ~ResponseOk(rt.response)) =>
    /\ rt.pc = "rejected"
    /\ rt.error.isError
    /\ Contains(rt.error.message, NumberToString(rt.response.status))
    /\ Contains(rt.error.message, StatusTexts[rt.response.status])
    /\ ~Contains(rSteps, "decode")
    /\ ~Contains(rSteps, "walk")

\* C8 witness: the gateway answered 404 Not Found and the call was rejected
C8_Witness ==
  /\ rt.response.status = 404
  /\ rt.pc = "rejected"
  /\ rt.error.message = <<"Error fetching file: ", "404", " ", "Not Found">>
  /\ rSteps = <<"resolve", "fetch">>


(***************************************************************************)
(* Claims about the upload tool                                            *)
(***************************************************************************)
\* C3: a delegation supplied with the request is the one handed to
\* Proof.parse and, once parsed, the one every client of the handler is
\* constructed with, even when a default is configured; the configured
\* default is the client's only when the request supplies none; when neither
\* is there the handler returns a "Delegation is required" failure with no
\* client constructed or initialized, nothing parsed and nothing sent.
C3_DelegationPrecedence ==
  tool.name = "upload" =>
    LET supplied == Truthy(tool.input.delegation)
        cleaned == StripWhitespace(tool.input.delegation.value)
    IN /\ Len(clients) <= 1
       /\ supplied =>
            /\ proofParses = <<cleaned>>
            /\ \A i \in 1..Len(clients) :
                 /\ ProofParse(cleaned).ok
                 /\ clients[i].delegation = ProofParse(cleaned).delegation
                 /\ config = clients[i]
       /\ (~supplied /\ storageConfig.delegation # "undefined") =>
            /\ proofParses = <<>>
            /\ \A i \in 1..Len(clients) :
                 /\ clients[i].delegation = storageConfig.delegation
                 /\ config = clients[i]
       /\ (~supplied /\ storageConfig.delegation = "undefined") =>
            /\ tool.pc = "returned"
            /\ tool.result.error
            /\ Contains(tool.result.text, "Delegation is required")
            /\ clients = <<>>
            /\ proofParses = <<>>
            /\ initialized = "null" /\ storage = "null" /\ lastInit = "none"
            /\ udCalls = <<>>

\* C3 witness: a request with its own delegation, served over a configured
\* default, was uploaded by a client holding the request's delegation
C3_Witness ==
  /\ tool.name = "upload"
  /\ tool.pc = "returned"
  /\ ~tool.result.error
  /\ Truthy(tool.input.delegation)
  /\ storageConfig.delegation = "proofDefault"
  /\ clients # <<>>
  /\ config.delegation = "proofReq"
  /\ udCalls # <<>>


(***************************************************************************)
(* Claims about the path functions                                         *)
(***************************************************************************)
\* the four accepted spellings of the prefix
PathForms == { <<>>, <<"/", "ipfs", "/">>, <<"ipfs", "/">>, <<"ipfs", ":", "/", "/">> }

\* C11: for a valid content id c and a pathname p that begins with a slash
\* and has something after it, parseIpfsPath of c+p, /ipfs/+c+p, ipfs/+c+p
\* and ipfs://+c+p returns the same Resource: protocol ipfs:, the content id
\* c denotes, and pathname p.
C11_FourForms ==
  ppc = "parsed" =>
    \A form \in PathForms, c \in CidStrings :
      (StartsWith(pIn, form \o <<c, "/">>) /\ Len(pIn) > Len(form) + 2) =>
        pOut = [ok |-> TRUE, protocol |-> "ipfs:", cid |-> CidParse(c),
                pathname |-> Drop(pIn, Len(form) + 1), error |-> Nothing]

\* C11 witness: the ipfs:// form of a nested path was parsed
C11_Witness ==
  /\ ppc = "parsed"
  /\ pIn = <<"ipfs", ":", "/", "/", "bafyA", "/", "f">>
  /\ pOut.ok
  /\ pOut.pathname = <<"/", "f">>

\* C12: when the path, its prefix stripped, has no slash, has nothing after
\* its first slash, or has before its first slash something that is no valid
\* content id, parseIpfsPath throws an IpfsPathError whose path is the input
\* as given; every Resource returned has a pathname that begins with a slash
\* and is longer than one character.
C12_PathErrors ==
  ppc = "parsed" =>
    LET n == normalizeIpfsPath(pIn)
        slash == IndexOf(n, "/")
        bad == \/ slash = 0
               \/ slash = Len(n)
               \/ ~(slash = 2 /\ n[1] \in CidStrings)
    IN /\ bad => /\ ~pOut.ok
                 /\ pOut.error.thrown
                 /\ pOut.error.name = "IpfsPathError"
                 /\ pOut.error.path = pIn
       /\ pOut.ok => /\ Len(pOut.pathname) > 1
                     /\ pOut.pathname[1] = "/"

\* C12 witness: a prefixed path with an invalid content id was rejected with
\* the path as given
C12_Witness ==
  /\ ppc = "parsed"
  /\ pIn = <<"/", "ipfs", "/", "f", "/", "f">>
  /\ ~pOut.ok
  /\ pOut.error.name = "IpfsPathError"
  /\ pOut.error.path = pIn

\* C13: normalizeIpfsPath is idempotent: applied to its own result it
\* returns that result.
C13_Idempotent ==
  ppc = "normalized2" => pNorm2 = pNorm1


\* C14: no step of an upload, retrieve or identity tool call, with or
\* without a delegation or gateway of its own, changes the shared
\* configuration the tools were built over.
C14_SharedConfigUnchanged == [][storageConfig' = storageConfig]_vars

\* C14 witness: an upload call that overrode both the delegation and the
\* gateway has run to its end on a client holding the overrides
C14_Witness ==
  /\ tool.name = "upload"
  /\ tool.pc = "returned"
  /\ ~tool.result.error
  /\ config.delegation = "proofReq"
  /\ config.gatewayUrl = "https://req.test"
  /\ storageConfig.delegation = "proofDefault"
  /\ storageConfig.gatewayUrl = "undefined"

\* C15: whatever the request and whichever step fails, with an Error or
\* with any other value, a handler never throws or rejects: once it is over
\* it has returned a text content item.
C15_HandlersReturnContent ==
  /\ tool.pc # "rejected"
  /\ tool.pc = "returned" => tool.result.type = "text"

\* C15 witness: the transport rejected with a value that is no Error and the
\* upload handler returned content
C15_Witness ==
  /\ tool.name = "upload"
  /\ tool.pc = "returned"
  /\ up.pc = "rejected"
  /\ ~up.error.isError
  /\ tool.result.type = "text"

\* the JSON text of the error envelope {name, message, cause}
ErrorEnvelope(name, message, cause) ==
  <<"{\"name\":\"", name, "\",\"message\":\"">> \o message \o <<"\",\"cause\":", cause, "}">>

\* the value a failed call of the upload or retrieve tool ended with
ToolFailure ==
  IF tool.name = "upload" /\ up.pc = "rejected" THEN up.error
  ELSE IF tool.name = "upload" /\ initialized = "rejected" THEN initError
  ELSE IF tool.name = "retrieve" /\ rt.pc = "rejected" THEN rt.error
  ELSE Nothing

\* C16: when the upload or the retrieve tool fails, the content item has
\* error: true and its text is the envelope {name, message, cause}: for an
\* Error the message is that error's message, for any other thrown value
\* the name is Error, the message is Unknown error and the cause is null.
C16_ErrorEnvelope ==
  (tool.pc = "returned" /\ ToolFailure.thrown) =>
    /\ tool.result.error
    /\ \/ /\ ToolFailure.isError
          /\ \E cause \in {"null"} \cup {"\"connect failed\""} :
               tool.result.text = ErrorEnvelope(ToolFailure.name, ToolFailure.message, cause)
       \/ /\ ~ToolFailure.isError
          /\ tool.result.text = ErrorEnvelope("Error", <<"Unknown error">>, "null")


\* C17: in uploadFiles and in retrieve alike, a rejection is always a
\* structured error: a thrown value that is no Error (a plain string
\* rejected by the transport or by fetch) comes out as an Error saying
\* Unknown error.
C17_UnknownErrorNormalized ==
  /\ up.pc = "rejected" => up.error.isError
  /\ rt.pc = "rejected" => rt.error.isError


(***************************************************************************)
(* More claims about uploadFiles and retrieve                              *)
(***************************************************************************)
\* C18: the piece hasher handed to uploadDirectory is the default one when
\* publishToFilecoin is exactly true and undefined otherwise, the flag left
\* out included; the same call with any other value of the flag invokes
\* uploadDirectory with the same files, retry count and signal; and the
\* value returned is made of the transport's root, the gateway and the
\* links it reported, whatever the flag.
C18_FlagOnlyDisablesHasher ==
  udCalls # <<>> =>
    /\ udCalls[1].pieceHasher =
         (IF up.options.publishToFilecoin = "true" THEN "default" ELSE "undefined")
    /\ \A flag \in {"undefined", "true", "false"} :
         LET other == uploadFilesEntry(up.initializedAtEntry, up.storageAtEntry, up.files,
                                       [up.options EXCEPT !.publishToFilecoin = flag],
                                       up.abortedAtEntry)
         IN /\ ~other.throw.thrown
            /\ Len(other.invoke) = 1
            /\ other.invoke[1].files = udCalls[1].files
            /\ other.invoke[1].retries = udCalls[1].retries
            /\ other.invoke[1].signal = udCalls[1].signal
    /\ up.pc = "resolved" =>
         /\ up.result.files = uploadedFiles
         /\ up.result.url = NewUrl(<<"/", "ipfs", "/", up.result.root>>, config.gatewayUrl)

\* C18 witness: a call with the flag true resolved, and one was made with
\* the default piece hasher
C18_Witness ==
  /\ up.pc = "resolved"
  /\ up.options.publishToFilecoin = "true"
  /\ udCalls # <<>>
  /\ udCalls[1].pieceHasher = "default"


\* bit j (from 0, most significant first) of a byte string, 0 past its end
BitOf(bytes, j) ==
  IF j >= 8 * Len(bytes) THEN 0
  ELSE (bytes[(j \div 8) + 1] \div Pow2(7 - (j % 8))) % 2

\* base64 without padding, by its definition: one alphabet character for
\* every six bits of the bytes
Base64Body(bytes) ==
  [k \in 1..((8 * Len(bytes) + 5) \div 6) |->
     Alphabet[ 32 * BitOf(bytes, 6 * (k - 1)) + 16 * BitOf(bytes, 6 * (k - 1) + 1)
               + 8 * BitOf(bytes, 6 * (k - 1) + 2) + 4 * BitOf(bytes, 6 * (k - 1) + 3)
               + 2 * BitOf(bytes, 6 * (k - 1) + 4) + BitOf(bytes, 6 * (k - 1) + 5) + 1 ]]

\* the = characters that fill standard base64 up to a multiple of four
Base64Padding(bytes) ==
  [k \in 1..((4 - (((8 * Len(bytes) + 5) \div 6) % 4)) % 4) |-> "="]

\* C19: with useMultiformatBase64 true, the data retrieve returns is the
\* marker m followed by the (unpadded) base64 of the file's bytes; with the
\* flag false or left out it is the standard padded base64 of those bytes.
C19_MarkerOrStandard ==
  rt.pc = "resolved" =>
    LET bytes == ConcatChunks(rt.content)
    IN IF rt.options.useMultiformatBase64 = "true"
         THEN rt.result.data = <<"m">> \o Base64Body(bytes)
         ELSE rt.result.data = Base64Body(bytes) \o Base64Padding(bytes)

\* C19 witness: a two-byte file was retrieved with the flag true
C19_Witness ==
  /\ rt.pc = "resolved"
  /\ rt.options.useMultiformatBase64 = "true"
  /\ rt.content = << <<152, 0>> >>
  /\ rt.result.data = <<"m", "m", "A", "A">>


(***************************************************************************)
(* Claims about calls in flight together                                   *)
(***************************************************************************)
\* the entries a Map holds, and the entries the links reported for one
\* directory amount to: for every non-empty name, the last content id
MapEntries(m) == {m[i] : i \in 1..Len(m)}

LinksReported(r) ==
  {r[i] : i \in {j \in 1..Len(r) :
                   /\ r[j][1] # ""
                   /\ \A k \in (j + 1)..Len(r) : r[k][1] # r[j][1]}}

\* the gateway a call asked for, or the default
OwnGateway(call) ==
  IF call.name = "upload" /\ call.input.gatewayUrl # "undefined"
    THEN call.input.gatewayUrl
  ELSE IF storageConfig.gatewayUrl # "undefined" THEN storageConfig.gatewayUrl
  ELSE DEFAULT_GATEWAY_URL

\* C20: however the calls in flight interleave, the Map of a call holds the
\* links reported for its own directory and nothing else; the value it
\* returns has the root the transport gave to it, those links, and a URL on
\* its own gateway; its client holds its own delegation and gateway, never
\* another call's; and a retrieve call fetches from the shared gateway.
C20_PerCallState ==
  \A c \in CallIds :
    /\ MapEntries(calls[c].uploadedFiles) = LinksReported(reports[c])
    /\ calls[c].value.root # "none" =>
         /\ calls[c].value.root = roots[c]
         /\ MapEntries(calls[c].value.files) = LinksReported(reports[c])
         /\ calls[c].value.url.origin = OwnGateway(calls[c])
    /\ calls[c].name = "upload" =>
         /\ calls[c].config.delegation =
              (IF Truthy(calls[c].input.delegation) THEN "proofReq"
               ELSE storageConfig.delegation)
         /\ calls[c].config.gatewayUrl = OwnGateway(calls[c])
    /\ calls[c].name = "retrieve" =>
         /\ calls[c].config.delegation = storageConfig.delegation
         /\ \A i \in 1..Len(calls[c].fetch) :
              calls[c].fetch[i].origin = OwnGateway(calls[c])

\* C20 witness: two uploads with different overrides were in flight
\* together, links were reported for both directories, and the first one
\* returned its own root and its own links while the second was running
C20_Witness ==
  /\ calls[1].name = "upload" /\ calls[2].name = "upload"
  /\ calls[1].pc = "returned" /\ calls[2].pc = "uploading"
  /\ calls[1].input.gatewayUrl = "https://req.test"
  /\ calls[2].input.gatewayUrl = "undefined"
  /\ Truthy(calls[1].input.delegation) /\ ~Truthy(calls[2].input.delegation)
  /\ reports[1] = << <<"a.txt", "cid1">> >>
  /\ reports[2] = << <<"a.txt", "cid2">> >>
  /\ calls[1].value.root = "root1"
  /\ calls[1].value.files = << <<"a.txt", "cid1">> >>

(***************************************************************************)
(* Claims about cancellation after entry                                   *)
(***************************************************************************)
\* C21: when the signal becomes aborted only after the check at entry,
\* uploadFiles raises no aborted error of its own: the call settles exactly as
\* uploadDirectory, which was given the signal, settled.
C21_AbortAfterEntry ==
  (up.pc \in {"resolved", "rejected"} /\ signalAborted /\ ~up.abortedAtEntry) =>
    /\ Len(udCalls) = 1 /\ udCalls[1].signal = "signal"
    /\ up.settled.rejected => (up.pc = "rejected" /\ up.error = up.settled.reason)
    /\ ~up.settled.rejected =>
         (up.pc = "resolved" /\ up.result.root = up.settled.root
          /\ up.settled.root \in RootIds)

\* C21 witness: the signal was aborted in flight and the call still resolved
\* with the root the transport gave.
C21_Witness ==
  /\ up.pc = "resolved" /\ signalAborted /\ ~up.abortedAtEntry
  /\ up.result.root = "root1"

(***************************************************************************)
(* Claims about initialize                                                 *)
(***************************************************************************)
TimesCalled(what) ==
  Cardinality({i \in 1..Len(storageCalls) : storageCalls[i] = what})

C23_MissingConfig ==
  (lastInit # "none" /\ (~config.signer \/ config.delegation = "undefined")) =>
    /\ lastInit = (IF ~config.signer THEN "Private key is required"
                    ELSE "Delegation is required")
    /\ storageCalls = <<>>
    /\ ~isConnected(initialized) /\ storage = "null" /\ initError = Nothing
    /\ up.pc # "none" => (UploadRejectedWith("Client not initialized") /\ udCalls = <<>>)

\* C23 witness: a client lacking both was initialized, and uploadFiles was
\* then called on it.
C23_Witness ==
  /\ ~config.signer /\ config.delegation = "undefined"
  /\ lastInit = "Private key is required"
  /\ up.pc = "rejected" /\ Len(up.files) > 0

\* C29 (as claimed): while initialize() is pending, and after it rejected
\* because Storage.create or addSpace failed, isConnected() is false and
\* uploadFiles rejects with 'Client not initialized' without invoking
\* uploadDirectory.
C29_UsableOnlyAfterSuccess ==
  /\ initialized \in {"creating", "addingSpace", "rejected"} => ~isConnected(initialized)
  /\ (up.pc # "none" /\ up.initializedAtEntry \in {"creating", "addingSpace", "rejected"}) =>
       (UploadRejectedWith("Client not initialized") /\ udCalls = <<>>)

(***************************************************************************)
(* Claims about retrieve and the client state                              *)
(***************************************************************************)
\* C24: retrieve runs the same way whatever the state of initialization: on
\* a client that was never initialized it resolves the path and asks the
\* gateway, it never fails with 'Client not initialized', and no step of it
\* changes what isConnected() and getStorage() return.
C24_RetrieveWithoutInitialize ==
  [][ /\ (rt' # rt \/ fetchLog' # fetchLog \/ rSteps' # rSteps) =>
           (initialized' = initialized /\ storage' = storage)
      /\ (rt.pc = "none" /\ rt'.pc # "none") =>
           IF parseIpfsPath(rt'.filepath).ok
             THEN rt'.pc = "fetching" /\ Len(fetchLog') = 1
                  /\ rSteps' = <<"resolve", "fetch">>
             ELSE rt'.pc = "rejected" /\ fetchLog' = <<>>
                  /\ rt'.error = parseIpfsPath(rt'.filepath).error ]_vars

\* C24 witness: retrieve ran to its result on a client whose initialize() was
\* never called.
C24_Witness ==
  /\ rt.pc = "resolved" /\ rSteps = StepOrder
  /\ initialized = "null" /\ storage = "null" /\ lastInit = "none"

(***************************************************************************)
(* Claims about prefix stripping                                           *)
(***************************************************************************)
\* the input minus the single longest prefix among ipfs://, /ipfs/ and ipfs/
MinusOnePrefix(path) ==
  IF StartsWith(path, <<"ipfs", ":", "/", "/">>) THEN Drop(path, 4)
  ELSE IF StartsWith(path, <<"/", "ipfs", "/">>) THEN Drop(path, 3)
  ELSE IF StartsWith(path, <<"ipfs", "/">>) THEN Drop(path, 2)
  ELSE path

\* the split of a prefix-free text at its first slash, with the errors of
\* the resolver reported for the path as given
SplitAtFirstSlash(rest, path) ==
  LET slash == IndexOf(rest, "/")
  IN IF slash = 0
       THEN PathError(<<"Invalid IPFS path: Must contain a slash separator between CID and filename">>, path)
     ELSE IF slash = Len(rest)
       THEN PathError(<<"Invalid IPFS path: Filename cannot be empty">>, path)
     ELSE IF slash = 2 /\ rest[1] \in CidStrings
       THEN [ok |-> TRUE, protocol |-> "ipfs:", cid |-> CidParse(rest[1]),
             pathname |-> Drop(rest, 1), error |-> Nothing]
     ELSE PathError(<<"Invalid IPFS path: Invalid CID \"">> \o SubSeq(rest, 1, slash - 1)
                      \o <<"\"">>, path)

\* C26 (as claimed): parseIpfsPath strips at most one prefix, the longest
\* applicable, and then splits at the first slash: what it returns or throws
\* is what the split of the input minus that one prefix gives.
C26_AtMostOnePrefix ==
  ppc = "parsed" => pOut = SplitAtFirstSlash(MinusOnePrefix(pIn), pIn)

(***************************************************************************)
(* Claims about the bytes of an uploaded file                              *)
(***************************************************************************)
\* C30 (as claimed): for every file text the upload tool's schema accepts,
\* the bytes uploadFiles makes of it are the standard base64 decoding of the
\* text after prefix removal, texts that begin with 'm' included.
C30_SubmittedBytes ==
  (cKind = "dec" /\ cpc = "decoded" /\ uploadInputSchemaFile(cStr)) =>
    LET file == FileObjects(<< [name |-> "a.txt", content |-> cStr] >>)[1]
    IN /\ file.decoded = cOut
       /\ cOut.ok
       /\ cOut.bytes = BufferFromBase64(StripDataUrlPrefix(cStr))

(***************************************************************************)
(* Claims about the SSE transport                                          *)
(***************************************************************************)
\* the session a request names: its query parameter when it has one that is
\* not empty, else the one of its body, else none
NamedSession(query, body) ==
  IF query.present /\ query.value # <<>> THEN query.value
  ELSE IF body.present /\ body.value # <<>> THEN body.value
  ELSE <<>>

\* C25: POST /messages takes the session from the query parameter, else
\* from the body; it answers 400 with code -32602 when neither names one, 404
\* 'Session not found' when the session is not in the connections map, and
\* 500 with code -32000 when the transport throws; handlePostMessage is
\* called only for a session that is in the map.
C25_PostMessages ==
  [][ /\ (post.pc = "none" /\ post'.pc # "none") =>
           LET id == NamedSession(post'.query, post'.body)
           IN /\ post'.sessionId = id
              /\ id = <<>> =>
                   (post'.pc = "answered" /\ post'.answer.status = "400"
                    /\ post'.answer.code = -32602)
              /\ (id # <<>> /\ id \notin connections) =>
                   (post'.pc = "answered" /\ post'.answer.status = "404"
                    /\ post'.answer.message = "Session not found")
              /\ (post'.pc = "handling") <=> (id \in connections)
      /\ (post.pc = "handling" /\ post'.threw) =>
           (post'.pc = "answered" /\ post'.answer.status = "500"
            /\ post'.answer.code = -32000) ]_vars

\* C25 witness: a request without the query parameter named an open session
\* in its body, and the session's transport threw.
C25_Witness ==
  /\ post.pc = "answered" /\ post.threw
  /\ ~post.query.present /\ post.body.value = SessionIdOf(1)
  /\ post.answer.status = "500"

\* the sessions of the GET /sse requests that have neither closed nor failed
LiveSessions(requests) ==
  {requests[r].sessionId : r \in {q \in SseRequests :
     requests[q].pc \in {"connecting", "open"} /\ ~requests[q].closed}}

\* the sessions of the GET /sse requests that have closed or failed
RemovedSessions(requests) ==
  {requests[r].sessionId : r \in {q \in SseRequests :
     requests[q].sessionId # <<>> /\ (requests[q].closed \/ requests[q].pc = "failed")}}

\* C27: after the close event of a GET /sse request, and after a failure
\* while creating or connecting its transport, its session is not in the
\* connections map: every session in the map belongs to a request that has
\* neither closed nor failed, a POST /messages for a removed session gets
\* 404, and /health counts only the sessions of such requests.
C27_ClosedCleanedUp ==
  [][ /\ connections' \subseteq LiveSessions(sse')
      /\ RemovedSessions(sse') \cap connections' = {}
      /\ (post.pc = "none" /\ post'.pc # "none"
           /\ post'.sessionId \in RemovedSessions(sse)) =>
             post'.answer.status = "404"
      /\ health' # health =>
           /\ health'.connectedSessionIds \subseteq LiveSessions(sse)
           /\ health'.activeConnections = Cardinality(health'.connectedSessionIds) ]_vars

\* C27 witness: one session closed after it was open, a POST for it got 404,
\* and /health reported the one session that is left.
C27_Witness ==
  /\ sse[1].pc = "open" /\ sse[1].closed
  /\ post.sessionId = SessionIdOf(1) /\ post.answer.status = "404"
  /\ connections = {SessionIdOf(2)}
  /\ health.activeConnections = 1

\* C28 (as claimed): a message is handed to the transport of a session only
\* after mcpServer.connect for that session has completed successfully.
C28_DispatchAfterConnect ==
  post.pc = "handling" => post.target = "open"

====
